---- MODULE Spec2Model ----
(***************************************************************************)
(* A model of the tracent event model: the string table, the               *)
(* SimpleTraceBuilder, the reporter it hands PDUs to, and the              *)
(* ExecutionUnit objects that drive the builder.                           *)
(*                                                                         *)
(* Python dicts are modelled as sets of <<key, value>> pairs, protobuf     *)
(* repeated fields as sequences, byte strings and str as sequences of      *)
(* byte values.  Wall-clock fields (time_reference, timestamp) are not     *)
(* modelled.  A builder operation is an operator from a "world" record     *)
(* (the builder's fields, the reporter's log and the pending exception)    *)
(* to the world after the call; an exception stops the rest of the call    *)
(* and leaves the mutations made before it.                                *)
(***************************************************************************)
EXTENDS Integers, Sequences, FiniteSets, TLC

VARIABLES
    eu_states,      \* SimpleTraceBuilder.eu_states: dict eu_id -> EuState
    string_table,   \* SimpleTraceBuilder.string_table: the StringTable
    items,          \* the calls received by the reporter, in order
    eus,            \* the ExecutionUnit objects created so far, by id
    uuid_clock,     \* number of trace ids minted by uuid1() so far
    carrier,        \* the reference of a coming event, from peek()
    calls,          \* number of operations so far
    last,           \* the last operation: its name, arguments and outcome
    log,            \* the calls so far with their arguments and results,
                    \* where a property speaks of several calls
    threads         \* per thread: where it is in the call it executes, its
                    \* local variables and its thread-local storage

vars == <<eu_states, string_table, items, eus, uuid_clock, carrier, calls,
          last, log, threads>>

(***************************************************************************)
(* Bounds                                                                  *)
(***************************************************************************)
HashWidth == 8      \* aliases and event ids keep the low HashWidth bits
MaxEvents == 1      \* direct add_event calls per fragment
MaxCalls == 6       \* direct calls of builder operations in one run
MaxOps == 4         \* operations of execution units in one run

EuIds == {1, 2}

(***************************************************************************)
(* Python dicts as sets of <<key, value>> pairs                            *)
(***************************************************************************)
DictKeys(d) == {p[1] : p \in d}
DictGet(d, k) == (CHOOSE p \in d : p[1] = k)[2]
DictSet(d, k, v) == {p \in d : p[1] # k} \cup {<<k, v>>}
DictPop(d, k) == {p \in d : p[1] # k}

(***************************************************************************)
(* FNV-1a.  The hash is computed as the library computes it, byte by byte; *)
(* only its low HashWidth bits are kept (the low bits of an FNV-1a hash    *)
(* depend only on the low bits of the offset basis and of the prime).      *)
(***************************************************************************)
FNV_32_PRIME == 16777619
FNV1_32A_INIT_LOW == 40389      \* low 16 bits of 0x811c9dc5
FNV_64_PRIME_LOW == 435         \* low 16 bits of 0x100000001b3
FNV1_64A_INIT_LOW == 8997       \* low 16 bits of 0xcbf29ce484222325

HashModulus == 2 ^ HashWidth

\* a ^ b on n-bit numbers
RECURSIVE XorBits(_, _, _)
XorBits(a, b, n) ==
    IF n = 0 THEN 0
    ELSE (((a % 2) + (b % 2)) % 2) + 2 * XorBits(a \div 2, b \div 2, n - 1)

BitXor(a, b, n) == CHOOSE r \in {XorBits(x, y, n) : x \in {a}, y \in {b}} : TRUE

RECURSIVE fnva(_, _, _)
fnva(data, hval_init, fnv_prime) ==
    IF data = <<>> THEN hval_init
    ELSE fnva(Tail(data),
              (BitXor(hval_init, Head(data) % HashModulus, HashWidth)
                  * fnv_prime) % HashModulus,
              fnv_prime)

fnv1a_32(data) ==
    fnva(data, FNV1_32A_INIT_LOW % HashModulus, FNV_32_PRIME % HashModulus)

fnv1a_64(data) ==
    fnva(data, FNV1_64A_INIT_LOW % HashModulus, FNV_64_PRIME_LOW % HashModulus)

\* struct.pack("<Q", n) for n < 2^16: eight bytes, least significant first
PackQ(n) == <<n % 256, (n \div 256) % 256, 0, 0, 0, 0, 0, 0>>

(***************************************************************************)
(* Strings and tag values                                                  *)
(***************************************************************************)
\* "a", "g" and "if" in UTF-8; the hashes of "g" and "if" agree in their
\* low 9 bits
Strings == {<<97>>, <<103>>, <<105, 102>>}

\* A tag value is a record of its Python type and its content
\* the tags application code gives to events: a = 7 or a = 8
EventTagDicts ==
    {<<>>} \cup {<< <<(<<97>>), [type |-> "int", v |-> <<v>>]>> >> :
                    v \in {7, 8}}

\* the tags application code gives to units
UnitTagDicts ==
    {<<>>} \cup {<< <<k, [type |-> "int", v |-> <<7>>]>> >> :
                    k \in {<<97>>, <<103>>}}

NoAlias == -1
NoTraceId == -1

(***************************************************************************)
(* StringTable                                                             *)
(***************************************************************************)
StringTableInit ==
    [strings_by_alias |-> {}, aliases_by_string |-> {}, is_dirty |-> FALSE]

\* fnv1a_32 of the UTF-8 encoding of each string (tabulated once)
Aliases == [string \in Strings |-> fnv1a_32(string)]

\* get_alias: the table after the call, the alias returned, the exception
\* get_alias without line 274: a new string does not mark the table dirty
get_alias_not_dirty(st, string) ==
    IF string \in DictKeys(st.aliases_by_string)
    THEN [st |-> st, alias |-> DictGet(st.aliases_by_string, string),
          err |-> "none"]
    ELSE LET alias == Aliases[string]
         IN IF alias \in DictKeys(st.strings_by_alias)
            THEN [st |-> st, alias |-> NoAlias, err |-> "HashCollisionError"]
            ELSE [st |-> [st EXCEPT
                            !.strings_by_alias = DictSet(@, alias, string),
                            !.aliases_by_string = DictSet(@, string, alias)],
                  alias |-> alias, err |-> "none"]

\* get_alias without the lookup of line 264: the alias is computed anew
\* for every call
get_alias_no_lookup(st, string) ==
    LET alias == Aliases[string]
    IN IF alias \in DictKeys(st.strings_by_alias)
       THEN [st |-> st, alias |-> NoAlias, err |-> "HashCollisionError"]
       ELSE [st |-> [strings_by_alias |->
                         DictSet(st.strings_by_alias, alias, string),
                     aliases_by_string |->
                         DictSet(st.aliases_by_string, string, alias),
                     is_dirty |-> TRUE],
             alias |-> alias, err |-> "none"]

\* get_alias that binds the alias to the new string before it raises
get_alias_overwrites(st, string) ==
    IF string \in DictKeys(st.aliases_by_string)
    THEN [st |-> st, alias |-> DictGet(st.aliases_by_string, string),
          err |-> "none"]
    ELSE LET alias == Aliases[string]
         IN [st |-> [strings_by_alias |->
                         DictSet(st.strings_by_alias, alias, string),
                     aliases_by_string |->
                         DictSet(st.aliases_by_string, string, alias),
                     is_dirty |-> TRUE],
             alias |-> IF alias \in DictKeys(st.strings_by_alias)
                       THEN NoAlias ELSE alias,
             err |-> IF alias \in DictKeys(st.strings_by_alias)
                     THEN "HashCollisionError" ELSE "none"]

\* get_alias without line 273: the string is not entered in
\* aliases_by_string
get_alias_one_map(st, string) ==
    IF string \in DictKeys(st.aliases_by_string)
    THEN [st |-> st, alias |-> DictGet(st.aliases_by_string, string),
          err |-> "none"]
    ELSE LET alias == Aliases[string]
         IN IF alias \in DictKeys(st.strings_by_alias)
            THEN [st |-> st, alias |-> NoAlias, err |-> "HashCollisionError"]
            ELSE [st |-> [strings_by_alias |->
                              DictSet(st.strings_by_alias, alias, string),
                          aliases_by_string |-> st.aliases_by_string,
                          is_dirty |-> TRUE],
                  alias |-> alias, err |-> "none"]

get_alias(st, string) ==
    IF string \in DictKeys(st.aliases_by_string)
    THEN [st |-> st, alias |-> DictGet(st.aliases_by_string, string),
          err |-> "none"]
    ELSE LET alias == Aliases[string]
         IN IF alias \in DictKeys(st.strings_by_alias)
            THEN [st |-> st, alias |-> NoAlias, err |-> "HashCollisionError"]
            ELSE [st |-> [strings_by_alias |->
                              DictSet(st.strings_by_alias, alias, string),
                          aliases_by_string |->
                              DictSet(st.aliases_by_string, string, alias),
                          is_dirty |-> TRUE],
                  alias |-> alias, err |-> "none"]

\* save_to: every entry of strings_by_alias is added to the sink
save_to_entries(st) ==
    {[alias |-> p[1], value |-> p[2]] : p \in st.strings_by_alias}

save_to(st) == [st EXCEPT !.is_dirty = FALSE]

(***************************************************************************)
(* SimpleTraceBuilder                                                      *)
(***************************************************************************)
None == [type |-> "NoneType", v |-> <<>>]

NoTracingData ==
    [routing_key |-> NoTraceId, trace_fragments |-> <<>>,
     execution_units |-> <<>>, strings |-> {}]

NoEvent ==
    [sequence_number |-> -1, event_type |-> "none", status |-> "none",
     causing_events |-> <<>>, tags |-> <<>>]

World == [eu_states |-> eu_states, string_table |-> string_table,
          items |-> items, err |-> "none"]

Raise(W, e) == [W EXCEPT !.err = e]

\* the state of unit eu_id, and the world with that state replaced
EuStateOf(W, eu_id) == DictGet(W.eu_states, eu_id)
WithEuState(W, eu_id, s) ==
    [W EXCEPT !.eu_states = DictSet(W.eu_states, eu_id, s)]

\* _add_tag: the string table and the container after the call
_add_tag(st, tag_container, key, value, encode_string_values) ==
    LET ga == get_alias(st, key)
        keyed == IF ga.err = "none"
                 THEN [alias_key |-> ga.alias, string_key |-> <<>>,
                       value_case |-> "none", value |-> <<>>,
                       alias_value |-> NoAlias]
                 ELSE [alias_key |-> NoAlias, string_key |-> key,
                       value_case |-> "none", value |-> <<>>,
                       alias_value |-> NoAlias]
        Ok(st2, tag) ==
            [st |-> st2, tags |-> Append(tag_container, tag), err |-> "none"]
    IN  IF value = None THEN Ok(ga.st, keyed)
        ELSE IF value.type \in {"int", "bool"}     \* bool is an int
        THEN Ok(ga.st, [keyed EXCEPT !.value_case = "int_value",
                                     !.value = value.v])
        ELSE IF value.type = "float"
        THEN Ok(ga.st, [keyed EXCEPT !.value_case = "float_value",
                                     !.value = value.v])
        ELSE IF value.type = "str"
        THEN IF encode_string_values
             THEN LET gv == get_alias(ga.st, key)
                  IN IF gv.err = "none"
                     THEN Ok(gv.st, [keyed EXCEPT !.value_case = "alias_value",
                                                  !.alias_value = gv.alias])
                     ELSE Ok(gv.st, [keyed EXCEPT !.value_case = "string_value",
                                                  !.value = key])
             ELSE Ok(ga.st, [keyed EXCEPT !.value_case = "string_value",
                                          !.value = key])
        ELSE IF value.type = "bytes"
        THEN Ok(ga.st, [keyed EXCEPT !.value_case = "bytes_value",
                                     !.value = value.v])
        ELSE [st |-> ga.st, tags |-> Append(tag_container, keyed),
              err |-> "TypeError"]

\* the loop of start_eu over tags.items()
RECURSIVE start_eu_tags(_, _, _)
start_eu_tags(W, eu_id, tags) ==
    IF tags = <<>> THEN W
    ELSE LET key == Head(tags)[1]
             value == Head(tags)[2]
         IN IF value = None THEN Raise(W, "AssertionError")
            ELSE LET s == EuStateOf(W, eu_id)
                     r == _add_tag(W.string_table, s.eu_pdu.tags, key, value,
                                   FALSE)
                     W2 == [WithEuState(W, eu_id,
                                [s EXCEPT !.eu_pdu.tags = r.tags])
                            EXCEPT !.string_table = r.st]
                 IN IF r.err # "none" THEN Raise(W2, r.err)
                    ELSE start_eu_tags(W2, eu_id, Tail(tags))

\* start_eu without the assert of line 116: a registered id is registered
\* anew
start_eu_overwrites(W, eu_id, eu_type, tags) ==
    start_eu_tags(
        WithEuState(W, eu_id,
            [eu_pdu |-> [id |-> eu_id, type |-> eu_type, tags |-> <<>>],
             is_trace_ongoing |-> FALSE,
             event_tags |-> {},
             tracing_data_pdu |-> NoTracingData,
             event_pdu |-> "unset",
             stale_event |-> NoEvent]),
        eu_id, tags)

start_eu(W, eu_id, eu_type, tags) ==
    IF eu_id \in DictKeys(W.eu_states) THEN Raise(W, "AssertionError")
    ELSE start_eu_tags(
            WithEuState(W, eu_id,
                [eu_pdu |-> [id |-> eu_id, type |-> eu_type, tags |-> <<>>],
                 is_trace_ongoing |-> FALSE,
                 event_tags |-> {},
                 tracing_data_pdu |-> NoTracingData,
                 event_pdu |-> "unset",
                 stale_event |-> NoEvent]),
            eu_id, tags)

\* finish_eu with eu_states.clear() for the pop of line 128: the state of
\* every unit is removed
finish_eu_clear(W, eu_id) ==
    IF eu_id \notin DictKeys(W.eu_states) THEN Raise(W, "KeyError")
    ELSE LET s == EuStateOf(W, eu_id)
             W2 == [W EXCEPT !.eu_states = {}]
         IN IF s.is_trace_ongoing THEN Raise(W2, "AssertionError") ELSE W2

\* finish_eu reading the unit's state without removing it
finish_eu_keeps(W, eu_id) ==
    IF eu_id \notin DictKeys(W.eu_states) THEN Raise(W, "KeyError")
    ELSE IF EuStateOf(W, eu_id).is_trace_ongoing
    THEN Raise(W, "AssertionError") ELSE W

finish_eu(W, eu_id) ==
    IF eu_id \notin DictKeys(W.eu_states) THEN Raise(W, "KeyError")
    ELSE LET s == EuStateOf(W, eu_id)
             W2 == [W EXCEPT !.eu_states = DictPop(W.eu_states, eu_id)]
         IN IF s.is_trace_ongoing THEN Raise(W2, "AssertionError") ELSE W2

LastEvent(s) ==
    LET events == s.tracing_data_pdu.trace_fragments[1].events
    IN events[Len(events)]

\* start_trace without line 133: the PDU gets no routing key
start_trace_keyless(W, eu_id, trace_id) ==
    IF eu_id \notin DictKeys(W.eu_states) THEN Raise(W, "KeyError")
    ELSE LET s == EuStateOf(W, eu_id)
         IN IF s.is_trace_ongoing THEN Raise(W, "AssertionError")
            ELSE WithEuState(W, eu_id,
                    [s EXCEPT
                        !.is_trace_ongoing = TRUE,
                        !.tracing_data_pdu =
                            [routing_key |-> NoTraceId,
                             trace_fragments |->
                                <<[trace_id |-> trace_id,
                                   execution_unit_id |-> eu_id,
                                   events |-> <<>>]>>,
                             execution_units |-> <<>>,
                             strings |-> {}],
                        !.event_pdu =
                            IF s.event_pdu = "unset" THEN "unset" ELSE "stale",
                        !.stale_event =
                            IF s.event_pdu = "current" THEN LastEvent(s)
                            ELSE s.stale_event])

start_trace(W, eu_id, trace_id) ==
    IF eu_id \notin DictKeys(W.eu_states) THEN Raise(W, "KeyError")
    ELSE LET s == EuStateOf(W, eu_id)
         IN IF s.is_trace_ongoing THEN Raise(W, "AssertionError")
            ELSE WithEuState(W, eu_id,
                    [s EXCEPT
                        !.is_trace_ongoing = TRUE,
                        !.tracing_data_pdu =
                            [routing_key |-> trace_id,
                             trace_fragments |->
                                <<[trace_id |-> trace_id,
                                   execution_unit_id |-> eu_id,
                                   events |-> <<>>]>>,
                             execution_units |-> <<>>,
                             strings |-> {}],
                        !.event_pdu =
                            IF s.event_pdu = "unset" THEN "unset" ELSE "stale",
                        !.stale_event =
                            IF s.event_pdu = "current" THEN LastEvent(s)
                            ELSE s.stale_event])

\* _send: a PDU with a routing key goes to Reporter.send, any other to
\* Reporter.broadcast; the call is logged, then the reporter may raise
_send(W, tracing_data_pdu, raises) ==
    LET call == IF tracing_data_pdu.routing_key # NoTraceId
                THEN "send" ELSE "broadcast"
        W2 == [W EXCEPT !.items =
                  Append(@, [call |-> call, pdu |-> tracing_data_pdu])]
    IN IF raises THEN Raise(W2, "ReporterError") ELSE W2

\* finish_trace without line 149: the trace stays open after its fragment
\* was sent
finish_trace_stays_open(W, eu_id, trace_id, reporter) ==
    IF eu_id \notin DictKeys(W.eu_states) THEN Raise(W, "KeyError")
    ELSE LET s == EuStateOf(W, eu_id)
         IN IF ~s.is_trace_ongoing THEN Raise(W, "AssertionError")
            ELSE
            LET s2 == [s EXCEPT !.event_tags = {}]
                W2 == WithEuState(W, eu_id, s2)
                trace_fragment_pdu == s2.tracing_data_pdu.trace_fragments[1]
            IN IF trace_fragment_pdu.trace_id # trace_id
               THEN Raise(W2, "AssertionError")
               ELSE
               LET W3 == IF W2.string_table.is_dirty
                         THEN _send([W2 EXCEPT !.string_table = save_to(@)],
                                    [NoTracingData EXCEPT !.strings =
                                        save_to_entries(W2.string_table)],
                                    reporter = "broadcast_raises")
                         ELSE W2
                   routed == [s2.tracing_data_pdu EXCEPT !.execution_units =
                                  Append(@, s2.eu_pdu)]
               IN IF W3.err # "none" THEN W3
                  ELSE _send(WithEuState(W3, eu_id,
                                [s2 EXCEPT !.tracing_data_pdu = routed]),
                             routed, reporter = "send_raises")

\* finish_trace with lines 155-159 after lines 161-163: the routed PDU goes
\* out before the string table
finish_trace_send_first(W, eu_id, trace_id, reporter) ==
    IF eu_id \notin DictKeys(W.eu_states) THEN Raise(W, "KeyError")
    ELSE LET s == EuStateOf(W, eu_id)
         IN IF ~s.is_trace_ongoing THEN Raise(W, "AssertionError")
            ELSE
            LET s2 == [s EXCEPT !.is_trace_ongoing = FALSE,
                                !.event_tags = {}]
                W2 == WithEuState(W, eu_id, s2)
                routed == [s2.tracing_data_pdu EXCEPT !.execution_units =
                               Append(@, s2.eu_pdu)]
            IN IF s2.tracing_data_pdu.trace_fragments[1].trace_id # trace_id
               THEN Raise(W2, "AssertionError")
               ELSE
               LET W3 == _send(WithEuState(W2, eu_id,
                                  [s2 EXCEPT !.tracing_data_pdu = routed]),
                               routed, reporter = "send_raises")
               IN IF W3.err # "none" \/ ~W3.string_table.is_dirty THEN W3
                  ELSE _send([W3 EXCEPT !.string_table = save_to(@)],
                             [NoTracingData EXCEPT !.strings =
                                 save_to_entries(W3.string_table)],
                             reporter = "broadcast_raises")

\* finish_trace with the assert of line 153 after lines 155-159
finish_trace_late_assert(W, eu_id, trace_id, reporter) ==
    IF eu_id \notin DictKeys(W.eu_states) THEN Raise(W, "KeyError")
    ELSE LET s == EuStateOf(W, eu_id)
         IN IF ~s.is_trace_ongoing THEN Raise(W, "AssertionError")
            ELSE
            LET s2 == [s EXCEPT !.is_trace_ongoing = FALSE,
                                !.event_tags = {}]
                W2 == WithEuState(W, eu_id, s2)
                W3 == IF W2.string_table.is_dirty
                      THEN _send([W2 EXCEPT !.string_table = save_to(@)],
                                 [NoTracingData EXCEPT !.strings =
                                     save_to_entries(W2.string_table)],
                                 reporter = "broadcast_raises")
                      ELSE W2
                routed == [s2.tracing_data_pdu EXCEPT !.execution_units =
                               Append(@, s2.eu_pdu)]
            IN IF W3.err # "none" THEN W3
               ELSE IF s2.tracing_data_pdu.trace_fragments[1].trace_id
                       # trace_id
               THEN Raise(W3, "AssertionError")
               ELSE _send(WithEuState(W3, eu_id,
                             [s2 EXCEPT !.tracing_data_pdu = routed]),
                          routed, reporter = "send_raises")

finish_trace(W, eu_id, trace_id, reporter) ==
    IF eu_id \notin DictKeys(W.eu_states) THEN Raise(W, "KeyError")
    ELSE LET s == EuStateOf(W, eu_id)
         IN IF ~s.is_trace_ongoing THEN Raise(W, "AssertionError")
            ELSE
            LET s2 == [s EXCEPT !.is_trace_ongoing = FALSE,
                                !.event_tags = {}]
                W2 == WithEuState(W, eu_id, s2)
                trace_fragment_pdu == s2.tracing_data_pdu.trace_fragments[1]
            IN IF trace_fragment_pdu.trace_id # trace_id
               THEN Raise(W2, "AssertionError")
               ELSE
               LET W3 == IF W2.string_table.is_dirty
                         THEN _send([W2 EXCEPT !.string_table = save_to(@)],
                                    [NoTracingData EXCEPT !.strings =
                                        save_to_entries(W2.string_table)],
                                    reporter = "broadcast_raises")
                         ELSE W2
                   routed == [s2.tracing_data_pdu EXCEPT !.execution_units =
                                  Append(@, s2.eu_pdu)]
               IN IF W3.err # "none" THEN W3
                  ELSE _send(WithEuState(W3, eu_id,
                                [s2 EXCEPT !.tracing_data_pdu = routed]),
                             routed, reporter = "send_raises")

\* the loop of add_event with the condition of line 182 dropped: every
\* entry gets the cause's trace id
RECURSIVE causing_events_with_trace_id(_, _)
causing_events_with_trace_id(causes, fragment_trace_id) ==
    IF causes = <<>> THEN <<>>
    ELSE <<[trace_id |-> Head(causes).trace_id,
            event_id |-> Head(causes).event_id]>>
         \o causing_events_with_trace_id(Tail(causes), fragment_trace_id)

\* the loop of add_event over causes
RECURSIVE causing_events(_, _)
causing_events(causes, fragment_trace_id) ==
    IF causes = <<>> THEN <<>>
    ELSE <<[trace_id |-> IF Head(causes).trace_id # fragment_trace_id
                         THEN Head(causes).trace_id ELSE NoTraceId,
            event_id |-> Head(causes).event_id]>>
         \o causing_events(Tail(causes), fragment_trace_id)

add_event(W, eu_id, trace_id, sequence_number, event_type, status, causes) ==
    IF eu_id \notin DictKeys(W.eu_states) THEN Raise(W, "KeyError")
    ELSE LET s == EuStateOf(W, eu_id)
         IN IF ~s.is_trace_ongoing THEN Raise(W, "AssertionError")
            ELSE
            LET trace_fragment_pdu == s.tracing_data_pdu.trace_fragments[1]
                event_pdu ==
                    [sequence_number |-> sequence_number,
                     event_type |-> event_type,
                     status |-> status,
                     causing_events |->
                        causing_events(causes, trace_fragment_pdu.trace_id),
                     tags |-> <<>>]
            IN WithEuState(W, eu_id,
                  [s EXCEPT
                      !.tracing_data_pdu.trace_fragments[1].events =
                          Append(@, event_pdu),
                      !.event_pdu = "current"])

\* Python's == on two tag values
PyEq(a, b) ==
    IF a.type \in {"int", "bool", "float"} /\ b.type \in {"int", "bool", "float"}
    THEN a.v = b.v
    ELSE a.type = b.type /\ a.v = b.v

\* the tags of the event eu_state.event_pdu refers to
EventPduTags(s) ==
    IF s.event_pdu = "current" THEN LastEvent(s).tags ELSE s.stale_event.tags

WithEventPduTags(s, tags) ==
    IF s.event_pdu = "current"
    THEN LET n == Len(s.tracing_data_pdu.trace_fragments[1].events)
         IN [s EXCEPT
                !.tracing_data_pdu.trace_fragments[1].events[n].tags = tags]
    ELSE [s EXCEPT !.stale_event.tags = tags]

\* the loop of add_tags over tags.items()
RECURSIVE add_tags_loop(_, _, _)
add_tags_loop(W, eu_id, tags) ==
    IF tags = <<>> THEN W
    ELSE
    LET key == Head(tags)[1]
        value == Head(tags)[2]
        s == EuStateOf(W, eu_id)
    IN IF key \notin DictKeys(s.event_tags) THEN Raise(W, "KeyError")
       ELSE
       LET unchanged == PyEq(value, DictGet(s.event_tags, key))
           value_to_add == IF unchanged THEN None ELSE value
           s2 == IF unchanged THEN s
                 ELSE [s EXCEPT !.event_tags = DictSet(@, key, value)]
           W2 == WithEuState(W, eu_id, s2)
       IN IF s2.event_pdu = "unset" THEN Raise(W2, "AttributeError")
          ELSE
          LET r == _add_tag(W2.string_table, EventPduTags(s2), key,
                            value_to_add, FALSE)
              W3 == [WithEuState(W2, eu_id, WithEventPduTags(s2, r.tags))
                     EXCEPT !.string_table = r.st]
          IN IF r.err # "none" THEN Raise(W3, r.err)
             ELSE add_tags_loop(W3, eu_id, Tail(tags))

add_tags(W, eu_id, event_sequence_number, tags) ==
    IF eu_id \notin DictKeys(W.eu_states) THEN Raise(W, "KeyError")
    ELSE IF ~EuStateOf(W, eu_id).is_trace_ongoing
    THEN Raise(W, "AssertionError")
    ELSE add_tags_loop(W, eu_id, tags)

\* the world after a call that left W2, made after the call that left W:
\* the later call is skipped when the earlier one raised
Then(W, W2) == IF W.err # "none" THEN W ELSE W2

(***************************************************************************)
(* ExecutionUnit                                                           *)
(***************************************************************************)
NoRef == [trace_id |-> NoTraceId, event_id |-> <<>>, eu_id |-> 0]

\* _generateNextEventId drawing after the counter's next value
_generateNextEventId_skips(eu) ==
    [eu EXCEPT !.eventSequenceNbr = eu.nextEventSequenceNbr,
               !.nextEventSequenceNbr = eu.eventCounter + 1,
               !.eventCounter = eu.eventCounter + 2]

\* _initEventNumbering._generateNextEventId: eventCounter is count(0)
_generateNextEventId(eu) ==
    [eu EXCEPT !.eventSequenceNbr = eu.nextEventSequenceNbr,
               !.nextEventSequenceNbr = eu.eventCounter,
               !.eventCounter = eu.eventCounter + 1]

\* the hash of the little-endian encoding of (sequence number, unit id)
\* (tabulated once for the sequence numbers and ids that occur)
EventIds ==
    [eventSequenceNbr \in 0..(MaxCalls + MaxOps) |->
        [id \in EuIds |->
            PackQ(fnv1a_64(PackQ(eventSequenceNbr) \o PackQ(id)))]]

_getEventId(eu, eventSequenceNbr) == EventIds[eventSequenceNbr][eu.id]

\* get_trace_context naming the event after the current one
get_trace_context_next(eu) ==
    [trace_id |-> eu.trace_id,
     event_id |-> _getEventId(eu, eu.nextEventSequenceNbr),
     eu_id |-> eu.id]

get_trace_context(eu) ==
    [trace_id |-> eu.trace_id,
     event_id |-> _getEventId(eu, eu.eventSequenceNbr),
     eu_id |-> eu.id]

\* peek naming the current event instead of the next one
peek_current(eu) ==
    [trace_id |-> eu.trace_id,
     event_id |-> _getEventId(eu, eu.eventSequenceNbr),
     eu_id |-> eu.id]

peek(eu) ==
    [trace_id |-> eu.trace_id,
     event_id |-> _getEventId(eu, eu.nextEventSequenceNbr),
     eu_id |-> eu.id]

\* dict.update on a dict kept in insertion order
RECURSIVE DictUpdate(_, _)
DictUpdate(d, tags) ==
    IF tags = <<>> THEN d
    ELSE LET k == Head(tags)[1]
             v == Head(tags)[2]
             d2 == IF \E i \in 1..Len(d) : d[i][1] = k
                   THEN [i \in 1..Len(d) |->
                            IF d[i][1] = k THEN <<k, v>> ELSE d[i]]
                   ELSE Append(d, <<k, v>>)
         IN DictUpdate(d2, Tail(tags))

\* An operation of a unit yields the world and the unit after the call
\* (X.W.err tells whether it raised), the value returned, and whether the
\* call reached uuid1()
Outcome(W, eu, ret, minted) ==
    [W |-> W, eu |-> eu, ret |-> ret, minted |-> minted]

\* the pending tags are handed to the builder for the most recent event
FlushTags(W, eu) ==
    LET flushed(W2) ==
            Outcome(W2,
                    IF W2.err = "none" THEN [eu EXCEPT !.tags = <<>>] ELSE eu,
                    NoRef, FALSE)
    IN flushed(add_tags(W, eu.id, _getEventId(eu, eu.eventSequenceNbr),
                        eu.tags))

\* ExecutionUnit(trace_builder, eu_type, **tags); trace_id is what uuid1()
\* returns
NewUnit(W, id, eu_type, tags, trace_id) ==
    LET eu0 == _generateNextEventId(
                   [id |-> id, eventSequenceNbr |-> -1,
                    nextEventSequenceNbr |-> 0, eventCounter |-> 0,
                    trace_id |-> trace_id, tags |-> <<>>])
        traced(W1, W2) ==
            Outcome(Then(W2, add_event(W2, id, trace_id,
                                       eu0.nextEventSequenceNbr,
                                       "CREATE_EU", "IDLE", <<>>)),
                    _generateNextEventId(eu0), NoRef, W1.err = "none")
        started(W1) == traced(W1, Then(W1, start_trace(W1, id, trace_id)))
    IN started(start_eu(W, id, eu_type, tags))

\* the unit leaves its trace for the trace new_trace_id
switch_trace(W, eu, new_trace_id, reporter) ==
    LET finished(W1) ==
            Outcome(Then(W1, start_trace(W1, eu.id, new_trace_id)),
                    IF W1.err = "none"
                    THEN [eu EXCEPT !.trace_id = new_trace_id] ELSE eu,
                    NoRef, FALSE)
    IN finished(finish_trace(W, eu.id, eu.trace_id, reporter))

\* start_new_trace that starts the new trace but keeps the unit's trace id
start_new_trace_keeps_id(W, eu, new_trace_id, reporter) ==
    LET finished(W1) ==
            Outcome(Then(W1, start_trace(W1, eu.id, new_trace_id)),
                    eu, NoRef, W1.err = "none")
    IN finished(finish_trace(W, eu.id, eu.trace_id, reporter))

\* start_new_trace; new_trace_id is what uuid1() returns
start_new_trace(W, eu, new_trace_id, reporter) ==
    LET finished(W1) ==
            Outcome(Then(W1, start_trace(W1, eu.id, new_trace_id)),
                    IF W1.err = "none"
                    THEN [eu EXCEPT !.trace_id = new_trace_id] ELSE eu,
                    NoRef, W1.err = "none")
    IN finished(finish_trace(W, eu.id, eu.trace_id, reporter))

\* trace_point; trace_id = NoTraceId stands for None, and fresh_id is what
\* uuid1() returns then
trace_point(W, eu, trace_id, fresh_id, event_type, status, causes, tags, reporter) ==
    LET target == IF trace_id = NoTraceId THEN fresh_id ELSE trace_id
        recorded(W3, eu2, minted) ==
            IF W3.err # "none" THEN Outcome(W3, eu2, NoRef, minted)
            ELSE Outcome(W3, _generateNextEventId(eu2),
                         get_trace_context(_generateNextEventId(eu2)), minted)
        tagged(W2, eu2, minted) ==
            recorded(add_event(W2, eu2.id, eu2.trace_id,
                               eu2.nextEventSequenceNbr,
                               event_type, status, causes),
                     eu2, minted)
        switched(S, minted) ==
            IF S.W.err # "none" THEN Outcome(S.W, S.eu, NoRef, minted)
            ELSE tagged(S.W, [S.eu EXCEPT !.tags = DictUpdate(@, tags)],
                        minted)
        flushed(F) ==
            switched(IF F.W.err # "none" \/ target = F.eu.trace_id THEN F
                     ELSE switch_trace(F.W, F.eu, target, reporter),
                     F.W.err = "none" /\ trace_id = NoTraceId)
    IN flushed(FlushTags(W, eu))

eu_add_tags(W, eu, tags) ==
    Outcome(W, [eu EXCEPT !.tags = DictUpdate(@, tags)], NoRef, FALSE)

finish(W, eu, reporter) ==
    LET traced(W2) ==
            Then(W2, finish_eu(W2, eu.id))
        recorded(W1) ==
            traced(Then(W1, finish_trace(W1, eu.id, eu.trace_id, reporter)))
        flushed(F) ==
            Outcome(recorded(Then(F.W, add_event(F.W, eu.id, eu.trace_id,
                                                 eu.nextEventSequenceNbr,
                                                 "FINISH_EU", "UNKNOWN",
                                                 <<>>))),
                    F.eu, NoRef, FALSE)
    IN flushed(FlushTags(W, eu))

(***************************************************************************)
(* What the reporter and the builder show of a unit                        *)
(***************************************************************************)
Range(s) == {s[i] : i \in DOMAIN s}

\* the open fragment of a registered unit
IsOpen(eu_id) ==
    eu_id \in DictKeys(eu_states) /\ DictGet(eu_states, eu_id).is_trace_ongoing

OpenFragment(eu_id) ==
    DictGet(eu_states, eu_id).tracing_data_pdu.trace_fragments[1]

\* the calls the step from the unprimed to the primed state handed to the
\* reporter
NewItems == SubSeq(items', Len(items) + 1, Len(items'))

\* a step that is the call op
CallOf(op) == calls' = calls + 1 /\ last'.op = op

\* the events of unit u in the routed PDUs handed to the reporter, in order
RECURSIVE EventsSent(_, _)
EventsSent(u, its) ==
    IF its = <<>> THEN <<>>
    ELSE LET pdu == Head(its).pdu
         IN (IF Head(its).call = "send"
                /\ pdu.trace_fragments[1].execution_unit_id = u
             THEN pdu.trace_fragments[1].events ELSE <<>>)
            \o EventsSent(u, Tail(its))

\* every event unit u appended so far: those sent, then those of the open
\* fragment
EventsOf(u) ==
    EventsSent(u, items)
        \o (IF IsOpen(u) THEN OpenFragment(u).events ELSE <<>>)

\* the tags of a routed PDU: those of its unit descriptors and of its events
TagsIn(pdu) ==
    UNION ({Range(d.tags) : d \in Range(pdu.execution_units)}
           \cup UNION {{Range(e.tags) : e \in Range(f.events)} :
                          f \in Range(pdu.trace_fragments)})

\* the aliases used as tag keys in a routed PDU
KeyAliases(pdu) == {t.alias_key : t \in TagsIn(pdu)} \ {NoAlias}

\* the string table entries handed to Reporter.broadcast so far
Broadcast(its) ==
    UNION {its[j].pdu.strings :
              j \in {j \in 1..Len(its) : its[j].call = "broadcast"}}

\* the entries of the string table no broadcast has carried yet
Pending == save_to_entries(string_table) \ Broadcast(items)

(***************************************************************************)
(* The program: units created and driven by application code               *)
(***************************************************************************)
\* carrier: the reference a unit's peek() returned to the application, kept
\* until that unit's next trace_point or finish call; recorded is the
\* causing-event id stored on the event of another unit that was given the
\* reference as its cause; produced is the event id of get_trace_context()
\* right after the trace_point that produced the event peek() announced
NoCarrier == [eu |-> 0, ref |-> NoRef, recorded |-> <<>>, produced |-> <<>>]

\* names: the tag names given to a new unit; fresh: there was at least one,
\* none of them was in the string table before the call, and the table had
\* nothing waiting for a broadcast
\* causes, tags: the causes given to add_event, the tags given to add_tags
Last(op, eu, trace_id, err) ==
    [op |-> op, eu |-> eu, trace_id |-> trace_id, err |-> err,
     names |-> {}, fresh |-> FALSE, causes |-> <<>>, tags |-> <<>>]

\* the threads of the process, none of them inside a call, none with a
\* unit in its thread-local storage
Threads == {1, 2}
NoThreads == [t \in Threads |-> [pc |-> "idle", eu |-> 0, made |-> 0]]

Init ==
    /\ eu_states = {}
    /\ string_table = StringTableInit
    /\ items = <<>>
    /\ eus = {}
    /\ uuid_clock = 0
    /\ carrier = NoCarrier
    /\ calls = 0
    /\ last = Last("init", 0, NoTraceId, "none")
    /\ log = <<>>
    /\ threads = NoThreads

\* every operation counts as one call and leaves the world it produced
Commit(W, budget) ==
    /\ calls < budget
    /\ calls' = calls + 1
    /\ eu_states' = W.eu_states
    /\ string_table' = W.string_table
    /\ items' = W.items

TagNames(tags) == {tags[i][1] : i \in 1..Len(tags)}

\* the ids are random 64-bit numbers: each new unit gets an id no other
\* unit of the process has
NewExecutionUnit ==
    \E id \in EuIds \ (DictKeys(eus) \cup DictKeys(eu_states)),
       tags \in UnitTagDicts :
        /\ \E X \in {NewUnit(World, id, "PROCESS", tags, uuid_clock + 1)} :
              /\ Commit(X.W, MaxOps)
              /\ eus' = IF X.W.err = "none" THEN DictSet(eus, id, X.eu)
                        ELSE eus
              /\ uuid_clock' = IF X.minted THEN uuid_clock + 1 ELSE uuid_clock
              /\ last' = [Last("new", id, NoTraceId, X.W.err) EXCEPT
                            !.names = TagNames(tags),
                            !.fresh =
                                /\ tags # <<>>
                                /\ ~string_table.is_dirty
                                /\ TagNames(tags) \cap
                                   DictKeys(string_table.aliases_by_string) = {}]
        /\ UNCHANGED <<carrier, log, threads>>

\* trace_point of unit u with the given trace id (NoTraceId for None),
\* causes and tags
TracePointOf(u, trace_id, causes, tags) ==
    \E X \in {trace_point(World, DictGet(eus, u), trace_id, uuid_clock + 1,
                        "OT_LOG", "UNKNOWN", causes, tags, "ok")} :
       /\ Commit(X.W, MaxOps)
       /\ eus' = DictSet(eus, u, X.eu)
       /\ uuid_clock' = IF X.minted THEN uuid_clock + 1 ELSE uuid_clock
       /\ last' = Last("trace_point", u, trace_id, X.W.err)
       /\ carrier' =
            IF carrier.eu = u
            THEN IF X.W.err = "none"
                 THEN [carrier EXCEPT
                          !.eu = 0,
                          !.produced = get_trace_context(X.eu).event_id]
                 ELSE NoCarrier
            ELSE IF X.W.err = "none" /\ causes # <<>>
            THEN [carrier EXCEPT !.recorded =
                    LastEvent(EuStateOf(X.W, u)).causing_events[1].event_id]
            ELSE carrier
       /\ UNCHANGED <<log, threads>>

\* a trace point without causes: a new trace, the unit's own trace, or any
\* trace id known in the process (0: a trace id received from elsewhere)
TracePoint ==
    \E u \in DictKeys(eus),
       trace_id \in {NoTraceId} \cup (0..uuid_clock) :
        TracePointOf(u, trace_id, <<>>, <<>>)

\* a trace point caused by the event the carried reference names, in the
\* unit's own trace, in the trace of the reference or in a new trace
TracePointCaused ==
    \E u \in DictKeys(eus) :
    \E trace_id \in {NoTraceId, DictGet(eus, u).trace_id, carrier.ref.trace_id},
       causes \in {<<>>} \cup
                  (IF carrier.eu # 0 THEN {<<carrier.ref>>} ELSE {}) :
        TracePointOf(u, trace_id, causes, <<>>)

StartNewTrace ==
    \E u \in DictKeys(eus) :
        /\ \E X \in {start_new_trace(World, DictGet(eus, u), uuid_clock + 1,
                                   "ok")} :
              /\ Commit(X.W, MaxOps)
              /\ eus' = DictSet(eus, u, X.eu)
              /\ last' = Last("start_new_trace", u, NoTraceId, X.W.err)
              /\ uuid_clock' = IF X.minted THEN uuid_clock + 1 ELSE uuid_clock
        /\ UNCHANGED <<carrier, log, threads>>

AddTags ==
    \E u \in DictKeys(eus), tags \in EventTagDicts \ {<<>>} :
        /\ \E X \in {eu_add_tags(World, DictGet(eus, u), tags)} :
              /\ Commit(X.W, MaxOps)
              /\ eus' = DictSet(eus, u, X.eu)
              /\ last' = Last("add_tags", u, NoTraceId, X.W.err)
        /\ UNCHANGED <<uuid_clock, carrier, log, threads>>

\* the application calls peek() and keeps the reference
Peek ==
    \E u \in DictKeys(eus) :
        /\ Commit(World, MaxOps)
        /\ carrier' = IF carrier.eu = u
                      THEN [carrier EXCEPT !.ref = peek(DictGet(eus, u))]
                      ELSE [NoCarrier EXCEPT !.eu = u,
                                             !.ref = peek(DictGet(eus, u))]
        /\ last' = Last("peek", u, NoTraceId, "none")
        /\ UNCHANGED <<eus, uuid_clock, log, threads>>

Finish ==
    \E u \in DictKeys(eus) :
        /\ \E X \in {finish(World, DictGet(eus, u), "ok")} :
              /\ Commit(X.W, MaxOps)
              /\ eus' = DictSet(eus, u, X.eu)
              /\ last' = Last("finish", u, NoTraceId, X.W.err)
        /\ carrier' = IF carrier.eu = u THEN NoCarrier ELSE carrier
        /\ UNCHANGED <<uuid_clock, log, threads>>

Next ==
    \/ NewExecutionUnit
    \/ TracePoint
    \/ StartNewTrace
    \/ AddTags
    \/ Finish

Spec == Init /\ [][Next]_vars

(***************************************************************************)
(* Two units that refer to each other's events: both exist from the start, *)
(* created without tags                                                    *)
(***************************************************************************)
EmptyWorld == [eu_states |-> {}, string_table |-> StringTableInit,
               items |-> <<>>, err |-> "none"]

InitCross ==
    \E X1 \in {NewUnit(EmptyWorld, 1, "PROCESS", <<>>, 1)} :
    \E X2 \in {NewUnit(X1.W, 2, "PROCESS", <<>>, 2)} :
       /\ eu_states = X2.W.eu_states
       /\ string_table = X2.W.string_table
       /\ items = X2.W.items
       /\ eus = {<<1, X1.eu>>, <<2, X2.eu>>}
       /\ uuid_clock = 2
       /\ carrier = NoCarrier
       /\ calls = 0
       /\ last = Last("new", 2, NoTraceId, "none")
       /\ log = <<>>
       /\ threads = NoThreads

NextCross ==
    \/ Peek
    \/ TracePointCaused
    \/ StartNewTrace
    \/ AddTags
    \/ Finish

SpecCross == InitCross /\ [][NextCross]_vars

(***************************************************************************)
(* The builder driven directly: any sequence of its operations, with any   *)
(* arguments, as application code holding the builder can issue them       *)
(***************************************************************************)
\* the trace ids given to the builder
BuilderTraceIds == {1, 2}

\* the tags given to start_eu: none, a name, a name that collides with it,
\* a value of a type that is not supported (a list)
BuilderTagDicts ==
    {<<>>,
     << <<(<<103>>), [type |-> "int", v |-> <<7>>]>> >>,
     << <<(<<105, 102>>), [type |-> "int", v |-> <<7>>]>> >>,
     << <<(<<103>>), [type |-> "list", v |-> <<7>>]>> >>}

\* what a direct call leaves: the builder's state and the outcome
Called(op, eu_id, trace_id, W) ==
    /\ Commit(W, MaxCalls)
    /\ last' = Last(op, eu_id, trace_id, W.err)
    /\ UNCHANGED <<eus, uuid_clock, carrier, log, threads>>

StartEu ==
    \E eu_id \in EuIds, tags \in BuilderTagDicts :
        /\ \E W \in {start_eu(World, eu_id, "THREAD", tags)} :
              /\ Commit(W, MaxCalls)
              /\ last' = [Last("start_eu", eu_id, NoTraceId, W.err) EXCEPT
                            !.tags = tags]
        /\ UNCHANGED <<eus, uuid_clock, carrier, log, threads>>

FinishEu ==
    \E eu_id \in EuIds :
        Called("finish_eu", eu_id, NoTraceId, finish_eu(World, eu_id))

StartTrace ==
    \E eu_id \in EuIds, trace_id \in BuilderTraceIds :
        Called("start_trace", eu_id, trace_id,
               start_trace(World, eu_id, trace_id))

\* the causes given to add_event: none, or two references into different
\* traces
BuilderCauses ==
    {<<>>,
     <<[trace_id |-> 1, event_id |-> EventIds[0][1], eu_id |-> 1],
       [trace_id |-> 2, event_id |-> EventIds[1][2], eu_id |-> 2]>>}

AddEvent ==
    \E eu_id \in EuIds, trace_id \in {1}, causes \in BuilderCauses :
        /\ IsOpen(eu_id) => Len(OpenFragment(eu_id).events) < MaxEvents
        /\ \E W \in {add_event(World, eu_id, trace_id,
                               IF IsOpen(eu_id)
                               THEN Len(OpenFragment(eu_id).events) ELSE 0,
                               "OT_LOG", "UNKNOWN", causes)} :
              /\ Commit(W, MaxCalls)
              /\ last' = [Last("add_event", eu_id, trace_id, W.err) EXCEPT
                            !.causes = causes]
        /\ UNCHANGED <<eus, uuid_clock, carrier, log, threads>>

\* the tags given to add_tags: those of EventTagDicts, a name that
\* collides with a name given to start_eu, a value of a type that is not
\* supported
BuilderEventTagDicts ==
    EventTagDicts \cup {<< <<(<<105, 102>>), [type |-> "int", v |-> <<7>>]>> >>,
                        << <<(<<97>>), [type |-> "list", v |-> <<7>>]>> >>}

BuilderAddTags ==
    \E eu_id \in EuIds, tags \in BuilderEventTagDicts :
        /\ \E W \in {add_tags(World, eu_id, EventIds[0][eu_id], tags)} :
              /\ Commit(W, MaxCalls)
              /\ last' = [Last("add_tags", eu_id, NoTraceId, W.err) EXCEPT
                            !.tags = tags]
        /\ UNCHANGED <<eus, uuid_clock, carrier, log, threads>>

FinishTrace ==
    \E eu_id \in EuIds, trace_id \in BuilderTraceIds :
        Called("finish_trace", eu_id, trace_id,
               finish_trace(World, eu_id, trace_id, "ok"))

NextBuilder ==
    \/ StartEu
    \/ FinishEu
    \/ StartTrace
    \/ AddEvent
    \/ BuilderAddTags
    \/ FinishTrace

SpecBuilder == Init /\ [][NextBuilder]_vars


(***************************************************************************)
(* Tags on the events of one trace: a unit is registered and its trace is  *)
(* open; events are added and tags are given to the most recent event.     *)
(* log keeps every add_tags call                                           *)
(***************************************************************************)
\* the values given for the tag "a"
TraceTagDicts ==
    {<< <<(<<97>>), [type |-> "int", v |-> <<v>>]>> >> : v \in {7, 8}}

InitTags ==
    \E W1 \in {start_eu(EmptyWorld, 1, "THREAD", <<>>)} :
    \E W2 \in {start_trace(W1, 1, 1)} :
       /\ eu_states = W2.eu_states
       /\ string_table = W2.string_table
       /\ items = W2.items
       /\ eus = {}
       /\ uuid_clock = 0
       /\ carrier = NoCarrier
       /\ calls = 0
       /\ last = Last("start_trace", 1, 1, W2.err)
       /\ log = <<>>
       /\ threads = NoThreads

TagsAddEvent ==
    /\ \E W \in {add_event(World, 1, 1, Len(OpenFragment(1).events),
                           "OT_LOG", "UNKNOWN", <<>>)} :
          /\ Commit(W, MaxCalls)
          /\ last' = Last("add_event", 1, 1, W.err)
    /\ UNCHANGED <<eus, uuid_clock, carrier, log, threads>>

\* event: the number of the most recent event at the time of the call;
\* entries: the tag entries the call added to that event
TagsAddTags ==
    \E tags \in TraceTagDicts :
        /\ OpenFragment(1).events # <<>>
        /\ \E W \in {add_tags(World, 1, EventIds[0][1], tags)} :
              /\ Commit(W, MaxCalls)
              /\ last' = [Last("add_tags", 1, NoTraceId, W.err) EXCEPT
                            !.tags = tags]
              /\ log' = Append(log,
                    [op |-> "add_tags", eu |-> 1, tags |-> tags,
                     event |-> Len(OpenFragment(1).events),
                     err |-> W.err,
                     entries |->
                        LET before == LastEvent(DictGet(eu_states, 1)).tags
                            after == LastEvent(EuStateOf(W, 1)).tags
                        IN SubSeq(after, Len(before) + 1, Len(after))])
        /\ UNCHANGED <<eus, uuid_clock, carrier, threads>>

NextTags ==
    \/ TagsAddEvent
    \/ TagsAddTags

SpecTags == InitTags /\ [][NextTags]_vars

(***************************************************************************)
(* One unit created with tags of every kind of value, in one trace after   *)
(* another. log keeps every start_eu call that returned, with its tags     *)
(***************************************************************************)
KindTagDicts ==
    {<< <<(<<97>>), [type |-> "bool", v |-> <<1>>]>> >>,
     << <<(<<97>>), [type |-> "int", v |-> <<7>>]>> >>,
     << <<(<<97>>), [type |-> "float", v |-> <<7>>]>> >>,
     << <<(<<97>>), [type |-> "str", v |-> <<103>>]>> >>,
     << <<(<<97>>), [type |-> "bytes", v |-> <<103>>]>> >>,
     << <<(<<97>>), [type |-> "int", v |-> <<7>>]>>,
        <<(<<103>>), [type |-> "float", v |-> <<8>>]>> >>}

KindsStartEu ==
    \E tags \in KindTagDicts :
        /\ \E W \in {start_eu(World, 1, "THREAD", tags)} :
              /\ Commit(W, MaxCalls)
              /\ last' = [Last("start_eu", 1, NoTraceId, W.err) EXCEPT
                            !.tags = tags]
              /\ log' = IF W.err # "none" THEN log
                         ELSE Append(log, [op |-> "start_eu", eu |-> 1,
                                           tags |-> tags, err |-> W.err])
        /\ UNCHANGED <<eus, uuid_clock, carrier, threads>>

KindsStartTrace ==
    Called("start_trace", 1, 1, start_trace(World, 1, 1))

KindsAddEvent ==
    /\ IsOpen(1)
    /\ Called("add_event", 1, NoTraceId,
              add_event(World, 1, 1, Len(OpenFragment(1).events),
                        "OT_LOG", "UNKNOWN", <<>>))

KindsFinishTrace ==
    Called("finish_trace", 1, 1, finish_trace(World, 1, 1, "ok"))

NextKinds ==
    \/ KindsStartEu
    \/ KindsStartTrace
    \/ KindsAddEvent
    \/ KindsFinishTrace

SpecKinds == Init /\ [][NextKinds]_vars

(***************************************************************************)
(* The string table on its own: get_alias and save_to called in any order. *)
(* log keeps every call: the string given and the alias returned, or the   *)
(* entries added to the sink                                               *)
(***************************************************************************)
TableCall(op, string, alias, err, entries) ==
    [op |-> op, string |-> string, alias |-> alias, err |-> err,
     entries |-> entries]

GetAlias ==
    \E string \in Strings :
        /\ calls < MaxCalls
        /\ calls' = calls + 1
        /\ \E r \in {get_alias(string_table, string)} :
              /\ string_table' = r.st
              /\ last' = Last("get_alias", 0, NoTraceId, r.err)
              /\ log' = Append(log, TableCall("get_alias", string, r.alias,
                                             r.err, {}))
        /\ UNCHANGED <<eu_states, items, eus, uuid_clock, carrier, threads>>

\* save_to(entries) on an empty sink
SaveTo ==
    /\ calls < MaxCalls
    /\ calls' = calls + 1
    /\ string_table' = save_to(string_table)
    /\ last' = Last("save_to", 0, NoTraceId, "none")
    /\ log' = Append(log, TableCall("save_to", <<>>, NoAlias, "none",
                                   save_to_entries(string_table)))
    /\ UNCHANGED <<eu_states, items, eus, uuid_clock, carrier, threads>>

NextTable ==
    \/ GetAlias
    \/ SaveTo

SpecTable == Init /\ [][NextTable]_vars

(***************************************************************************)
(* The threading model (StandardThreadingModel, and PythonThreads with the  *)
(* same two methods): every thread calls get_eu and finish in any order,   *)
(* and the steps of a get_eu of one thread interleave                      *)
(* with the steps of the other threads. The storage _eu_proxy is a         *)
(* threading.local: threads[t].eu is the attribute eu as thread t sees it, *)
(* 0 when the attribute is not set. log keeps every get_eu that returned,  *)
(* with the unit returned and whether the call created it, and every       *)
(* finish; calls counts the calls the threads began                        *)
(***************************************************************************)
ThreadCall(op, t, ret, created) ==
    [op |-> op, thread |-> t, ret |-> ret, created |-> created]

\* the attribute read from a storage that all threads share
_eu_proxy_shared(ths, t) ==
    IF \E o \in Threads : ths[o].eu # 0
    THEN ths[CHOOSE o \in Threads : ths[o].eu # 0].eu
    ELSE 0

\* self._eu_proxy.eu read by thread t; 0 stands for AttributeError
_eu_proxy_eu(ths, t) == ths[t].eu

\* del that removes the attribute for every thread
_eu_proxy_del_all(ths, t) == [o \in Threads |-> [ths[o] EXCEPT !.eu = 0]]

\* del self._eu_proxy.eu by thread t; without the attribute, AttributeError
\* is raised and passed over
_eu_proxy_del(ths, t) == [ths EXCEPT ![t].eu = 0]

\* get_eu, lines 36-38 and 41: the thread reads its attribute and returns
\* the unit it finds, or goes on to create one
GetEuLookup ==
    \E t \in Threads :
        /\ threads[t].pc = "idle"
        /\ calls < MaxCalls
        /\ calls' = calls + 1
        /\ \E eu \in {_eu_proxy_eu(threads, t)} :
              IF eu # 0
              THEN /\ threads' = threads
                   /\ log' = Append(log, ThreadCall("get_eu", t, eu, FALSE))
                   /\ last' = Last("get_eu", eu, NoTraceId, "none")
              ELSE /\ threads' = [threads EXCEPT ![t].pc = "create"]
                   /\ log' = log
                   /\ last' = Last("get_eu", 0, NoTraceId, "AttributeError")
        /\ UNCHANGED <<eu_states, string_table, items, eus, uuid_clock,
                       carrier>>

\* get_eu, line 39: the unit is created; its id is a random 64-bit number,
\* one no other unit of the process has. An exception of the constructor
\* ends the call
GetEuCreate ==
    \E t \in Threads :
        /\ threads[t].pc = "create"
        /\ \E id \in {Cardinality(DictKeys(eus)) + 1} :
           \E X \in {NewUnit(World, id, "THREAD", <<>>, uuid_clock + 1)} :
              /\ eu_states' = X.W.eu_states
              /\ string_table' = X.W.string_table
              /\ items' = X.W.items
              /\ eus' = IF X.W.err = "none" THEN DictSet(eus, id, X.eu)
                        ELSE eus
              /\ uuid_clock' = IF X.minted THEN uuid_clock + 1 ELSE uuid_clock
              /\ threads' = IF X.W.err = "none"
                            THEN [threads EXCEPT ![t].pc = "bind",
                                                 ![t].made = id]
                            ELSE [threads EXCEPT ![t].pc = "idle"]
              /\ last' = Last("get_eu", id, NoTraceId, X.W.err)
        /\ UNCHANGED <<carrier, calls, log>>

\* get_eu, lines 40 and 41: the unit is stored in the attribute and returned
GetEuBind ==
    \E t \in Threads :
        /\ threads[t].pc = "bind"
        /\ threads' = [threads EXCEPT ![t].pc = "idle",
                                      ![t].eu = threads[t].made,
                                      ![t].made = 0]
        /\ log' = Append(log, ThreadCall("get_eu", t, threads[t].made, TRUE))
        /\ last' = Last("get_eu", threads[t].made, NoTraceId, "none")
        /\ UNCHANGED <<eu_states, string_table, items, eus, uuid_clock,
                       carrier, calls>>

\* finish of the threading model, lines 43-47
ThreadsFinish ==
    \E t \in Threads :
        /\ threads[t].pc = "idle"
        /\ calls < MaxCalls
        /\ calls' = calls + 1
        /\ threads' = _eu_proxy_del(threads, t)
        /\ log' = Append(log, ThreadCall("finish", t, 0, FALSE))
        /\ last' = Last("threading_model.finish", threads[t].eu, NoTraceId,
                        "none")
        /\ UNCHANGED <<eu_states, string_table, items, eus, uuid_clock,
                       carrier>>

NextThreads ==
    \/ GetEuLookup
    \/ GetEuCreate
    \/ GetEuBind
    \/ ThreadsFinish

SpecThreads == Init /\ [][NextThreads]_vars

(***************************************************************************)
(* get_alias called by two threads on the shared string table. The method  *)
(* takes no lock: a thread may be suspended between any two of its         *)
(* accesses to the table, and the accesses of the other thread come in     *)
(* between. threads[t] holds the locals string and alias of the call of    *)
(* thread t; log keeps every call that ended, with the alias returned or   *)
(* the exception and the string found under the hash                       *)
(***************************************************************************)
RaceThreads ==
    [t \in Threads |-> [pc |-> "idle", string |-> <<>>, alias |-> NoAlias]]

RaceCall(t, string, alias, err, conflicting_string) ==
    [op |-> "get_alias", thread |-> t, string |-> string, alias |-> alias,
     err |-> err, conflicting_string |-> conflicting_string]

InitRace ==
    /\ eu_states = {}
    /\ string_table = StringTableInit
    /\ items = <<>>
    /\ eus = {}
    /\ uuid_clock = 0
    /\ carrier = NoCarrier
    /\ calls = 0
    /\ last = Last("init", 0, NoTraceId, "none")
    /\ log = <<>>
    /\ threads = RaceThreads

\* the call of thread t ends: it returns alias or raises err
RaceEnds(t, alias, err, conflicting_string) ==
    /\ threads' = [threads EXCEPT ![t] = RaceThreads[t]]
    /\ log' = Append(log, RaceCall(t, threads[t].string, alias, err,
                                   conflicting_string))
    /\ last' = Last("get_alias", 0, NoTraceId, err)

\* get_alias is called: the thread is about to do the lookup of line 264
RaceGetAlias ==
    \E t \in Threads, string \in Strings :
        /\ threads[t].pc = "idle"
        /\ calls < MaxOps
        /\ calls' = calls + 1
        /\ threads' = [threads EXCEPT ![t].pc = "lookup",
                                      ![t].string = string]
        /\ last' = Last("get_alias", 0, NoTraceId, "none")
        /\ UNCHANGED <<eu_states, string_table, items, eus, uuid_clock,
                       carrier, log>>

\* lines 263-265 and 280: a string that is in aliases_by_string has its
\* alias returned
RaceLookup ==
    \E t \in Threads :
        /\ threads[t].pc = "lookup"
        /\ IF threads[t].string \in DictKeys(string_table.aliases_by_string)
           THEN RaceEnds(t, DictGet(string_table.aliases_by_string,
                                   threads[t].string), "none", <<>>)
           ELSE /\ threads' = [threads EXCEPT ![t].pc = "probe"]
                /\ UNCHANGED <<last, log>>
        /\ UNCHANGED <<eu_states, string_table, items, eus, uuid_clock,
                       carrier, calls>>

\* lines 266-271 and 275-278: the hash is computed and looked up in
\* strings_by_alias; a hash that is there raises HashCollisionError
RaceProbe ==
    \E t \in Threads :
        /\ threads[t].pc = "probe"
        /\ \E alias \in {Aliases[threads[t].string]} :
              IF alias \in DictKeys(string_table.strings_by_alias)
              THEN RaceEnds(t, NoAlias, "HashCollisionError",
                            DictGet(string_table.strings_by_alias, alias))
              ELSE /\ threads' = [threads EXCEPT ![t].pc = "store_string",
                                                 ![t].alias = alias]
                   /\ UNCHANGED <<last, log>>
        /\ UNCHANGED <<eu_states, string_table, items, eus, uuid_clock,
                       carrier, calls>>

\* line 272
RaceStoreString ==
    \E t \in Threads :
        /\ threads[t].pc = "store_string"
        /\ string_table' =
              [string_table EXCEPT !.strings_by_alias =
                  DictSet(@, threads[t].alias, threads[t].string)]
        /\ threads' = [threads EXCEPT ![t].pc = "store_alias"]
        /\ UNCHANGED <<eu_states, items, eus, uuid_clock, carrier, calls,
                       last, log>>

\* line 273
RaceStoreAlias ==
    \E t \in Threads :
        /\ threads[t].pc = "store_alias"
        /\ string_table' =
              [string_table EXCEPT !.aliases_by_string =
                  DictSet(@, threads[t].string, threads[t].alias)]
        /\ threads' = [threads EXCEPT ![t].pc = "set_dirty"]
        /\ UNCHANGED <<eu_states, items, eus, uuid_clock, carrier, calls,
                       last, log>>

\* lines 274 and 280
RaceSetDirty ==
    \E t \in Threads :
        /\ threads[t].pc = "set_dirty"
        /\ string_table' = [string_table EXCEPT !.is_dirty = TRUE]
        /\ RaceEnds(t, threads[t].alias, "none", <<>>)
        /\ UNCHANGED <<eu_states, items, eus, uuid_clock, carrier, calls>>

NextRace ==
    \/ RaceGetAlias
    \/ RaceLookup
    \/ RaceProbe
    \/ RaceStoreString
    \/ RaceStoreAlias
    \/ RaceSetDirty

SpecRace == InitRace /\ [][NextRace]_vars

(***************************************************************************)
(* Two threads, each with its own unit (thread t owns unit t), on the      *)
(* shared builder. The builder takes no lock. finish_trace is modelled as  *)
(* the steps it makes on the shared string table and the reporter, and the *)
(* operations of the other thread come in between them; start_eu and       *)
(* start_trace are single steps. threads[t].entries holds the entries the  *)
(* loop of save_to collected for thread t                                  *)
(***************************************************************************)
SharedThreads == [t \in Threads |-> [pc |-> "idle", entries |-> {}]]

\* unit 1 is registered with a tag and has a trace open
InitShared ==
    \E W1 \in {start_eu(EmptyWorld, 1, "THREAD",
                        << <<(<<97>>), [type |-> "int", v |-> <<7>>]>> >>)} :
    \E W2 \in {start_trace(W1, 1, 1)} :
       /\ eu_states = W2.eu_states
       /\ string_table = W2.string_table
       /\ items = W2.items
       /\ eus = {}
       /\ uuid_clock = 0
       /\ carrier = NoCarrier
       /\ calls = 0
       /\ last = Last("start_trace", 1, 1, W2.err)
       /\ log = <<>>
       /\ threads = SharedThreads

\* the tags a thread gives to start_eu
SharedTagDicts ==
    {<<>>, << <<(<<103>>), [type |-> "int", v |-> <<7>>]>> >>}

SharedStartEu ==
    \E t \in Threads, tags \in SharedTagDicts :
        /\ threads[t].pc = "idle"
        /\ \E W \in {start_eu(World, t, "THREAD", tags)} :
              /\ Commit(W, MaxOps)
              /\ last' = Last("start_eu", t, NoTraceId, W.err)
        /\ UNCHANGED <<eus, uuid_clock, carrier, log, threads>>

SharedStartTrace ==
    \E t \in Threads :
        /\ threads[t].pc = "idle"
        /\ \E W \in {start_trace(World, t, t)} :
              /\ Commit(W, MaxOps)
              /\ last' = Last("start_trace", t, t, W.err)
        /\ UNCHANGED <<eus, uuid_clock, carrier, log, threads>>

\* finish_trace, lines 147-153: the unit's state is looked up and marked,
\* the fragment's trace id is checked; an exception ends the call
SharedFinishTrace ==
    \E t \in Threads :
        /\ threads[t].pc = "idle"
        /\ calls < MaxOps
        /\ calls' = calls + 1
        /\ IF t \notin DictKeys(eu_states)
           THEN /\ last' = Last("finish_trace", t, t, "KeyError")
                /\ UNCHANGED <<eu_states, threads>>
           ELSE IF ~DictGet(eu_states, t).is_trace_ongoing
           THEN /\ last' = Last("finish_trace", t, t, "AssertionError")
                /\ UNCHANGED <<eu_states, threads>>
           ELSE /\ eu_states' =
                      DictSet(eu_states, t,
                          [DictGet(eu_states, t) EXCEPT
                              !.is_trace_ongoing = FALSE,
                              !.event_tags = {}])
                /\ IF OpenFragment(t).trace_id # t
                   THEN /\ last' = Last("finish_trace", t, t,
                                        "AssertionError")
                        /\ threads' = threads
                   ELSE /\ last' = Last("finish_trace", t, t, "none")
                        /\ threads' = [threads EXCEPT ![t].pc = "is_dirty"]
        /\ UNCHANGED <<string_table, items, eus, uuid_clock, carrier, log>>

\* line 155: if self.string_table.is_dirty
SharedIsDirty ==
    \E t \in Threads :
        /\ threads[t].pc = "is_dirty"
        /\ threads' = [threads EXCEPT ![t].pc =
                          IF string_table.is_dirty THEN "save_to" ELSE "send"]
        /\ UNCHANGED <<eu_states, string_table, items, eus, uuid_clock,
                       carrier, calls, last, log>>

\* save_to, lines 285-288: the loop over strings_by_alias
SharedSaveTo ==
    \E t \in Threads :
        /\ threads[t].pc = "save_to"
        /\ threads' = [threads EXCEPT
                          ![t].pc = "clear_dirty",
                          ![t].entries = save_to_entries(string_table)]
        /\ UNCHANGED <<eu_states, string_table, items, eus, uuid_clock,
                       carrier, calls, last, log>>

\* save_to, line 289
SharedClearDirty ==
    \E t \in Threads :
        /\ threads[t].pc = "clear_dirty"
        /\ string_table' = save_to(string_table)
        /\ threads' = [threads EXCEPT ![t].pc = "broadcast"]
        /\ UNCHANGED <<eu_states, items, eus, uuid_clock, carrier, calls,
                       last, log>>

\* line 159: the PDU with the entries goes to the reporter
SharedBroadcast ==
    \E t \in Threads :
        /\ threads[t].pc = "broadcast"
        /\ \E W \in {_send(World, [NoTracingData EXCEPT !.strings =
                                       threads[t].entries], FALSE)} :
              items' = W.items
        /\ threads' = [threads EXCEPT ![t].pc = "send", ![t].entries = {}]
        /\ UNCHANGED <<eu_states, string_table, eus, uuid_clock, carrier,
                       calls, last, log>>

\* lines 161-163: the unit descriptor is added and the routed PDU sent
SharedSend ==
    \E t \in Threads :
        /\ threads[t].pc = "send"
        /\ \E routed \in {[DictGet(eu_states, t).tracing_data_pdu EXCEPT
                               !.execution_units =
                                   Append(@, DictGet(eu_states, t).eu_pdu)]} :
           \E W \in {_send(WithEuState(World, t,
                              [DictGet(eu_states, t) EXCEPT
                                  !.tracing_data_pdu = routed]),
                           routed, FALSE)} :
              /\ eu_states' = W.eu_states
              /\ items' = W.items
        /\ threads' = [threads EXCEPT ![t].pc = "idle"]
        /\ UNCHANGED <<string_table, eus, uuid_clock, carrier, calls, last,
                       log>>

NextShared ==
    \/ SharedStartEu
    \/ SharedStartTrace
    \/ SharedFinishTrace
    \/ SharedIsDirty
    \/ SharedSaveTo
    \/ SharedClearDirty
    \/ SharedBroadcast
    \/ SharedSend

SpecShared == InitShared /\ [][NextShared]_vars

(***************************************************************************)
(* The propagators of tracent.opentracing. str and bytes are sequences of  *)
(* character codes and byte values; a UUID is its 16 bytes; a dict is the  *)
(* sequence of its <<key, value>> items in insertion order. An operation   *)
(* yields a record with err, the exception it raised ("none": it returned) *)
(***************************************************************************)
\* bytes.hex() and UUID.hex: two lower-case hex digits per byte
HexDigit(n) == IF n < 10 THEN 48 + n ELSE 87 + n

RECURSIVE hex(_)
hex(b) ==
    IF b = <<>> THEN <<>>
    ELSE <<HexDigit(Head(b) \div 16), HexDigit(Head(b) % 16)>> \o hex(Tail(b))

IsHexChar(c) ==
    (48 <= c /\ c <= 57) \/ (97 <= c /\ c <= 102) \/ (65 <= c /\ c <= 70)

HexValue(c) ==
    IF c <= 57 THEN c - 48 ELSE IF c >= 97 THEN c - 87 ELSE c - 55

\* bytes.fromhex(v): v.err is ValueError for an odd length or a character
\* that is no hex digit
fromhex(s) ==
    IF Len(s) % 2 # 0 \/ \E i \in 1..Len(s) : ~IsHexChar(s[i])
    THEN [err |-> "ValueError", v |-> <<>>]
    ELSE [err |-> "none",
          v |-> [i \in 1..(Len(s) \div 2) |->
                    16 * HexValue(s[2 * i - 1]) + HexValue(s[2 * i])]]

\* UUID(bytes=b) and UUID(hex=s)
UUID_bytes(b) ==
    IF Len(b) # 16 THEN [err |-> "ValueError", v |-> <<>>]
    ELSE [err |-> "none", v |-> b]

UUID_hex(s) ==
    IF Len(s) # 32 THEN [err |-> "ValueError", v |-> <<>>] ELSE fromhex(s)

\* UUID.variant is RFC_4122, and UUID.version is 1
IsUuid1(u) == (u[9] \div 64 = 2) /\ (u[7] \div 16 = 1)

\* str.lower() on ASCII
lower(s) == [i \in 1..Len(s) |-> IF 65 <= s[i] /\ s[i] <= 90
                                 THEN s[i] + 32 ELSE s[i]]

\* str.split(sep) for a separator of one character
RECURSIVE split(_, _)
split(s, sep) ==
    IF \A i \in 1..Len(s) : s[i] # sep THEN <<s>>
    ELSE LET n == CHOOSE i \in 1..Len(s) :
                      s[i] = sep /\ \A j \in 1..(i - 1) : s[j] # sep
         IN <<SubSeq(s, 1, n - 1)>> \o split(SubSeq(s, n + 1, Len(s)), sep)

\* separator.join(parts)
RECURSIVE join(_, _)
join(sep, parts) ==
    IF Len(parts) = 1 THEN parts[1]
    ELSE parts[1] \o <<sep>> \o join(sep, Tail(parts))

startswith(s, prefix) ==
    Len(s) >= Len(prefix) /\ SubSeq(s, 1, Len(prefix)) = prefix

\* EventReference(trace_id, event_id, eu_id) and SpanContext(event_reference,
\* baggage); NoEuId stands for None
NoEuId == <<>>
EMPTY_BAGGAGE == <<>>

EventReference(trace_id, event_id, eu_id) ==
    [trace_id |-> trace_id, event_id |-> event_id, eu_id |-> eu_id]

SpanContext(event_reference, baggage) ==
    [event_reference |-> event_reference, baggage |-> baggage]

NoContext == [event_reference |-> "none", baggage |-> <<>>]

Extracted(err, context) == [err |-> err, context |-> context]

Corrupted == Extracted("SpanContextCorruptedException", NoContext)

\* a carrier is the object given: its type and its content
Carrier(type, data) == [type |-> type, data |-> data]

_BINARY_FORMAT_LENGTH == 26

\* SimpleBinaryPropagator.inject: the carrier after the call
SimpleBinaryPropagator_inject(span_context, the_carrier) ==
    IF the_carrier.type # "bytearray"
    THEN [err |-> "InvalidCarrierException", carrier |-> the_carrier]
    ELSE [err |-> "none",
          carrier |-> Carrier("bytearray",
              the_carrier.data \o <<0>>
                  \o span_context.event_reference.trace_id
                  \o span_context.event_reference.event_id
                  \o <<1>>)]

\* a slice of a memoryview: indices past the end give a shorter slice
Slice(data, from, to) ==
    IF from >= Len(data) THEN <<>>
    ELSE SubSeq(data, from + 1, IF to < Len(data) THEN to ELSE Len(data))

SimpleBinaryPropagator_extract(the_carrier) ==
    IF the_carrier.type # "memoryview"
    THEN Extracted("InvalidCarrierException", NoContext)
    ELSE IF Len(the_carrier.data) < _BINARY_FORMAT_LENGTH THEN Corrupted
    ELSE LET version == the_carrier.data[1]
             trace_id == UUID_bytes(Slice(the_carrier.data, 1, 17))
             parent_id == Slice(the_carrier.data, 17, 25)
         IN IF version = 255 THEN Corrupted
            ELSE IF trace_id.err # "none" THEN Corrupted
            ELSE IF ~IsUuid1(trace_id.v) THEN Corrupted
            ELSE Extracted("none",
                     SpanContext(EventReference(trace_id.v, parent_id, NoEuId),
                                 EMPTY_BAGGAGE))

prefix_tracer_state == <<111, 116, 45, 116, 114, 97, 99, 101, 114, 45>>
prefix_baggage == <<111, 116, 45, 98, 97, 103, 103, 97, 103, 101, 45>>
field_name_trace_id == prefix_tracer_state \o <<116, 114, 97, 99, 101, 95, 105, 100>>
field_name_span_id == prefix_tracer_state \o <<115, 112, 97, 110, 105, 100>>
field_name_sampled == prefix_tracer_state \o <<115, 97, 109, 112, 108, 101, 100>>
field_count == 3
StrTrue == <<116, 114, 117, 101>>
StrFalse == <<102, 97, 108, 115, 101>>

\* carrier[k] = v on a dict kept in insertion order
SetItem(d, k, v) == DictUpdate(d, << <<k, v>> >>)

RECURSIVE TextPropagator_inject_baggage(_, _)
TextPropagator_inject_baggage(the_carrier, baggage) ==
    IF baggage = <<>> THEN the_carrier
    ELSE TextPropagator_inject_baggage(
             SetItem(the_carrier, prefix_baggage \o Head(baggage)[1],
                     Head(baggage)[2]),
             Tail(baggage))

\* TextPropagator.inject: the carrier after the call
TextPropagator_inject(span_context, the_carrier) ==
    [err |-> "none",
     carrier |-> Carrier("dict",
        TextPropagator_inject_baggage(
            SetItem(SetItem(SetItem(the_carrier.data,
                field_name_trace_id, hex(span_context.event_reference.trace_id)),
                field_name_span_id, hex(span_context.event_reference.event_id)),
                field_name_sampled, StrTrue),
            span_context.baggage))]

\* the loop of TextPropagator.extract over the items of the carrier; acc
\* holds count, span_id, trace_id, baggage and the exception raised
NoneValue == <<-1>>

RECURSIVE TextPropagator_extract_loop(_, _)
TextPropagator_extract_loop(items_left, acc) ==
    IF items_left = <<>> \/ acc.err # "none" THEN acc
    ELSE LET v == Head(items_left)[2]
             k == lower(Head(items_left)[1])
             rest == Tail(items_left)
             raised == [acc EXCEPT !.err = "SpanContextCorruptedException"]
         IN IF k = field_name_span_id
            THEN IF fromhex(v).err # "none" THEN raised
                 ELSE TextPropagator_extract_loop(rest,
                          [acc EXCEPT !.span_id = fromhex(v).v,
                                      !.count = @ + 1])
            ELSE IF k = field_name_trace_id
            THEN IF UUID_hex(v).err # "none" THEN raised
                 ELSE IF ~IsUuid1(UUID_hex(v).v) THEN raised
                 ELSE TextPropagator_extract_loop(rest,
                          [acc EXCEPT !.trace_id = UUID_hex(v).v,
                                      !.count = @ + 1])
            ELSE IF k = field_name_sampled
            THEN IF v \in {StrTrue, <<49>>, StrFalse, <<48>>}
                 THEN TextPropagator_extract_loop(rest, [acc EXCEPT !.count = @ + 1])
                 ELSE raised
            ELSE IF startswith(k, prefix_baggage)
            THEN TextPropagator_extract_loop(rest,
                     [acc EXCEPT !.baggage =
                         SetItem(@, SubSeq(k, Len(prefix_baggage) + 1, Len(k)),
                                 v)])
            ELSE TextPropagator_extract_loop(rest, acc)

TextPropagator_extract(the_carrier) ==
    LET done(acc) ==
            IF acc.err # "none" THEN Corrupted
            ELSE IF acc.count # field_count THEN Corrupted
            ELSE Extracted("none",
                     SpanContext(EventReference(acc.trace_id, acc.span_id,
                                                NoEuId),
                                 acc.baggage))
    IN done(TextPropagator_extract_loop(the_carrier.data,
                [count |-> 0, span_id |-> NoneValue, trace_id |-> NoneValue,
                 baggage |-> <<>>, err |-> "none"]))

traceparent == <<116, 114, 97, 99, 101, 112, 97, 114, 101, 110, 116>>
field_separator == 45

\* W3CPropagator.inject: the carrier after the call
W3CPropagator_inject(span_context, the_carrier) ==
    [err |-> "none",
     carrier |-> Carrier("dict",
        SetItem(the_carrier.data, traceparent,
            join(field_separator,
                 <<(<<48, 48>>),
                   hex(span_context.event_reference.trace_id),
                   hex(span_context.event_reference.event_id),
                   (<<48, 49>>)>>)))]

W3CPropagator_extract(the_carrier) ==
    IF \A i \in 1..Len(the_carrier.data) : the_carrier.data[i][1] # traceparent
    THEN Extracted("KeyError", NoContext)
    ELSE LET header == (CHOOSE i \in 1..Len(the_carrier.data) :
                            the_carrier.data[i][1] = traceparent)
             fields == split(the_carrier.data[header][2], field_separator)
             parsed(trace_id, parent_id, version) ==
                 IF trace_id.err # "none" THEN Corrupted
                 ELSE IF ~IsUuid1(trace_id.v) THEN Corrupted
                 ELSE IF parent_id.err # "none" \/ version.err # "none"
                 THEN Corrupted
                 ELSE IF Len(version.v) # 1       \* ord() of the bytes
                 THEN Extracted("TypeError", NoContext)
                 ELSE IF version.v[1] = 255 THEN Corrupted
                 ELSE Extracted("none",
                          SpanContext(EventReference(trace_id.v, parent_id.v,
                                                     NoEuId),
                                      EMPTY_BAGGAGE))
         IN IF Len(fields) # 4 THEN Corrupted
            ELSE parsed(UUID_hex(fields[2]), fromhex(fields[3]),
                        fromhex(fields[1]))

\* str.upper() on ASCII
upper(s) == [i \in 1..Len(s) |-> IF 97 <= s[i] /\ s[i] <= 122
                                 THEN s[i] - 32 ELSE s[i]]

(***************************************************************************)
(* A context is injected into a fresh carrier; the carrier may be damaged  *)
(* on its way (up to MaxTamper times); extract is applied to what arrives. *)
(* log holds the inject call with the carrier as it is now and, after it,  *)
(* the extract call with its outcome                                       *)
(***************************************************************************)
MaxTamper == 2

Formats == {"binary", "text_map", "w3c"}

\* trace ids as uuid1() makes them (version 1, variant RFC 4122), event ids
\* as _getEventId makes them, the id of the originating unit or None
PropTraceIds ==
    {<<1, 2, 3, 4, 5, 6, 17, 8, 128, 10, 11, 12, 13, 14, 15, 16>>,
     <<255, 171, 3, 4, 5, 6, 30, 8, 191, 10, 11, 12, 13, 14, 15, 160>>}

PropContexts ==
    {SpanContext(EventReference(trace_id, event_id, eu_id), baggage) :
        trace_id \in PropTraceIds,
        event_id \in {EventIds[0][1], EventIds[1][2]},
        eu_id \in {NoEuId, PackQ(1)},
        baggage \in {<<>>,
                     << <<(<<107>>), (<<118>>)>> >>,
                     << <<(<<75>>), (<<118>>)>> >>}}

PropInject ==
    \E format \in Formats, span_context \in PropContexts :
        /\ \E r \in {CASE format = "binary" ->
                         SimpleBinaryPropagator_inject(span_context,
                             Carrier("bytearray", <<>>))
                      [] format = "text_map" ->
                         TextPropagator_inject(span_context,
                                               Carrier("dict", <<>>))
                      [] format = "w3c" ->
                         W3CPropagator_inject(span_context,
                                              Carrier("dict", <<>>))} :
              log' = <<[op |-> "inject", format |-> format,
                        span_context |-> span_context,
                        carrier |-> r.carrier, tamper |-> <<>>]>>
        /\ last' = Last("inject", 0, NoTraceId, "none")
        /\ UNCHANGED <<eu_states, string_table, items, eus, uuid_clock,
                       carrier, calls, threads>>

\* the carrier of the inject call is replaced
Tampered(how, data) ==
    /\ Len(log) = 1
    /\ Len(log[1].tamper) < MaxTamper
    /\ log' = <<[log[1] EXCEPT !.carrier.data = data,
                               !.tamper = Append(@, how)]>>
    /\ last' = Last(how, 0, NoTraceId, "none")
    /\ UNCHANGED <<eu_states, string_table, items, eus, uuid_clock,
                   carrier, calls, threads>>

\* a binary carrier loses its last byte
PropTruncate ==
    /\ Len(log) = 1
    /\ log[1].format = "binary"
    /\ log[1].carrier.data # <<>>
    /\ Tampered("truncate", SubSeq(log[1].carrier.data, 1,
                                   Len(log[1].carrier.data) - 1))

\* a binary carrier gets one more byte
PropExtend ==
    /\ Len(log) = 1
    /\ log[1].format = "binary"
    /\ Tampered("extend", Append(log[1].carrier.data, 0))

\* a text-map carrier loses one of its items
PropDropItem ==
    /\ Len(log) = 1
    /\ log[1].format = "text_map"
    /\ \E i \in 1..Len(log[1].carrier.data) :
          Tampered("drop_item",
                   SubSeq(log[1].carrier.data, 1, i - 1)
                       \o SubSeq(log[1].carrier.data, i + 1,
                                 Len(log[1].carrier.data)))

\* a text-map carrier gets an item again under its name in upper case
PropRespell ==
    /\ Len(log) = 1
    /\ log[1].format = "text_map"
    /\ \E i \in 1..Len(log[1].carrier.data) :
          Tampered("respell",
                   SetItem(log[1].carrier.data,
                           upper(log[1].carrier.data[i][1]),
                           log[1].carrier.data[i][2]))

\* extract is given the carrier: a binary one as the bytearray it is or as
\* a memoryview of it
PropExtract ==
    /\ Len(log) = 1
    /\ \E type \in IF log[1].format = "binary"
                  THEN {"bytearray", "memoryview"} ELSE {"dict"} :
       \E r \in {CASE log[1].format = "binary" ->
                     SimpleBinaryPropagator_extract(
                         Carrier(type, log[1].carrier.data))
                  [] log[1].format = "text_map" ->
                     TextPropagator_extract(log[1].carrier)
                  [] log[1].format = "w3c" ->
                     W3CPropagator_extract(log[1].carrier)} :
          /\ log' = Append(log, [op |-> "extract", format |-> log[1].format,
                                 carrier |-> Carrier(type, log[1].carrier.data),
                                 err |-> r.err, context |-> r.context])
          /\ last' = Last("extract", 0, NoTraceId, r.err)
    /\ UNCHANGED <<eu_states, string_table, items, eus, uuid_clock,
                   carrier, calls, threads>>

NextPropagators ==
    \/ PropInject
    \/ PropTruncate
    \/ PropExtend
    \/ PropDropItem
    \/ PropRespell
    \/ PropExtract

SpecPropagators == Init /\ [][NextPropagators]_vars

(***************************************************************************)
(* Fragments and their events: the builder driven directly, every event    *)
(* with a sequence number of its own.  log holds one record for every      *)
(* start_trace that returned: the unit, the trace id, the sequence numbers *)
(* add_event appended since, and the position in items of the routed PDU   *)
(* the finish_trace that returned handed to the reporter (0: none yet)     *)
(***************************************************************************)
MaxAppended == MaxEvents + 1

\* the record of the latest start_trace of the unit (0: none)
LatestOf(eu_id, l) ==
    LET S == {i \in 1..Len(l) : l[i].eu = eu_id}
    IN IF S = {} THEN 0 ELSE CHOOSE i \in S : \A j \in S : j <= i

EventsStartEu ==
    \E eu_id \in EuIds, tags \in SharedTagDicts :
        /\ \E W \in {start_eu(World, eu_id, "THREAD", tags)} :
              /\ Commit(W, MaxCalls)
              /\ last' = Last("start_eu", eu_id, NoTraceId, W.err)
        /\ UNCHANGED <<eus, uuid_clock, carrier, log, threads>>

EventsFinishEu ==
    \E eu_id \in EuIds :
        /\ \E W \in {finish_eu(World, eu_id)} :
              /\ Commit(W, MaxCalls)
              /\ last' = Last("finish_eu", eu_id, NoTraceId, W.err)
        /\ UNCHANGED <<eus, uuid_clock, carrier, log, threads>>

EventsStartTrace ==
    \E eu_id \in EuIds, trace_id \in BuilderTraceIds :
        /\ \E W \in {start_trace(World, eu_id, trace_id)} :
              /\ Commit(W, MaxCalls)
              /\ last' = Last("start_trace", eu_id, trace_id, W.err)
              /\ log' = IF W.err = "none"
                        THEN Append(log, [eu |-> eu_id, trace_id |-> trace_id,
                                          appended |-> <<>>, sent |-> 0])
                        ELSE log
        /\ UNCHANGED <<eus, uuid_clock, carrier, threads>>

\* the trace id given need not be that of the open trace
EventsAddEvent ==
    \E eu_id \in EuIds, trace_id \in BuilderTraceIds :
        /\ IsOpen(eu_id) => Len(OpenFragment(eu_id).events) < MaxAppended
        /\ \E W \in {add_event(World, eu_id, trace_id, calls,
                               "OT_LOG", "UNKNOWN", <<>>)} :
              /\ Commit(W, MaxCalls)
              /\ last' = Last("add_event", eu_id, trace_id, W.err)
              /\ log' = IF W.err = "none" /\ LatestOf(eu_id, log) # 0
                        THEN [log EXCEPT ![LatestOf(eu_id, log)].appended =
                                            Append(@, calls)]
                        ELSE log
        /\ UNCHANGED <<eus, uuid_clock, carrier, threads>>

EventsFinishTrace ==
    \E eu_id \in EuIds, trace_id \in BuilderTraceIds,
       reporter \in {"ok", "broadcast_raises"} :
        /\ \E W \in {finish_trace(World, eu_id, trace_id, reporter)} :
              /\ Commit(W, MaxCalls)
              /\ last' = Last("finish_trace", eu_id, trace_id, W.err)
              /\ log' = IF W.err = "none" /\ LatestOf(eu_id, log) # 0
                        THEN [log EXCEPT ![LatestOf(eu_id, log)].sent =
                                            Len(W.items)]
                        ELSE log
        /\ UNCHANGED <<eus, uuid_clock, carrier, threads>>

EventsAddTags ==
    \E eu_id \in EuIds, tags \in SharedTagDicts :
        /\ \E W \in {add_tags(World, eu_id, EventIds[0][eu_id], tags)} :
              /\ Commit(W, MaxCalls)
              /\ last' = Last("add_tags", eu_id, NoTraceId, W.err)
        /\ UNCHANGED <<eus, uuid_clock, carrier, log, threads>>

NextEvents ==
    \/ EventsStartEu
    \/ EventsFinishEu
    \/ EventsStartTrace
    \/ EventsAddEvent
    \/ EventsAddTags
    \/ EventsFinishTrace

SpecEvents == Init /\ [][NextEvents]_vars
C3_AliasesBroadcastFirst ==
    \A i \in 1..Len(items) :
        items[i].call = "send" =>
            \A a \in KeyAliases(items[i].pdu) :
                \E e \in Broadcast(SubSeq(items, 1, i - 1)) : e.alias = a

\* a routed PDU whose unit descriptor has a tag with an alias as its key
C3_Witness ==
    \E i \in 1..Len(items) :
        items[i].call = "send" /\ KeyAliases(items[i].pdu) # {}

C8_OneRoutedPduPerFragment ==
    [][(CallOf("finish_trace") /\ last'.err = "none") =>
          LET sends == {i \in 1..Len(NewItems) : NewItems[i].call = "send"}
          IN /\ Cardinality(sends) = 1
             /\ \A i \in sends :
                   LET pdu == NewItems[i].pdu
                   IN /\ Len(pdu.trace_fragments) = 1
                      /\ pdu.trace_fragments[1] = OpenFragment(last'.eu)
                      /\ pdu.trace_fragments[1].execution_unit_id = last'.eu
                      /\ Len(pdu.execution_units) = 1
                      /\ pdu.execution_units[1].id = last'.eu
                      /\ pdu.routing_key = pdu.trace_fragments[1].trace_id]_vars

\* a finish_trace that succeeded on a fragment with an event
C8_Witness ==
    /\ last.op = "finish_trace"
    /\ last.err = "none"
    /\ items # <<>>
    /\ items[Len(items)].call = "send"
    /\ items[Len(items)].pdu.trace_fragments[1].events # <<>>

\* C9: a successful finish_trace that finds the string table dirty calls
\* Reporter.broadcast with the entries not broadcast yet and then
\* Reporter.send; a finish_trace that finds it clean makes no broadcast.
C9_BroadcastBeforeSend ==
    [][CallOf("finish_trace") =>
          IF string_table.is_dirty
          THEN last'.err = "none" =>
                  /\ Len(NewItems) = 2
                  /\ NewItems[1].call = "broadcast"
                  /\ Pending \subseteq NewItems[1].pdu.strings
                  /\ NewItems[2].call = "send"
          ELSE \A i \in 1..Len(NewItems) : NewItems[i].call # "broadcast"]_vars

\* a finish_trace on a dirty table, then one on a clean table
C9_Witness ==
    /\ last.op = "finish_trace"
    /\ last.err = "none"
    /\ Len(items) = 3
    /\ items[1].call = "broadcast"
    /\ items[1].pdu.strings # {}
    /\ items[2].call = "send"
    /\ items[3].call = "send"

\* C10: a finish_trace on a unit with no open trace, or with a trace id
\* that is not the one of the open fragment, fails and hands nothing to the
\* reporter.
C10_FailedFinishTraceHandsNothing ==
    [][(/\ CallOf("finish_trace")
        /\ \/ ~IsOpen(last'.eu)
           \/ OpenFragment(last'.eu).trace_id # last'.trace_id) =>
          /\ last'.err # "none"
          /\ items' = items]_vars

\* a finish_trace that failed on the trace id while the table was dirty
C10_Witness ==
    /\ last.op = "finish_trace"
    /\ last.err = "AssertionError"
    /\ last.eu \in DictKeys(eu_states)
    /\ DictGet(eu_states, last.eu).tracing_data_pdu.trace_fragments # <<>>
    /\ OpenFragment(last.eu).trace_id # last.trace_id
    /\ string_table.is_dirty

\* C11: a start_eu with a registered id, a start_trace on a unit whose
\* trace is open or that is not registered, and an add_event or add_tags on
\* a unit that is not registered or has no open trace each fail, leave the
\* builder's state (units, fragments, events, tag caches, string table) as
\* it was and hand nothing to the reporter.
C11_PreconditionViolations ==
    [][(\/ CallOf("start_eu") /\ last'.eu \in DictKeys(eu_states)
        \/ CallOf("start_trace")
              /\ (last'.eu \notin DictKeys(eu_states) \/ IsOpen(last'.eu))
        \/ (CallOf("add_event") \/ CallOf("add_tags")) /\ ~IsOpen(last'.eu)) =>
          /\ last'.err # "none"
          /\ eu_states' = eu_states
          /\ string_table' = string_table
          /\ items' = items]_vars

\* a start_trace that failed on a unit whose open fragment has an event
C11_Witness ==
    /\ last.op = "start_trace"
    /\ last.err = "AssertionError"
    /\ IsOpen(last.eu)
    /\ OpenFragment(last.eu).events # <<>>

\* the finish_eu part common to the two readings of C12: the call fails
\* when the unit's trace is open, and succeeds and removes the unit's state
\* when the unit is registered and has no open trace
FinishEuStep ==
    /\ (CallOf("finish_eu") /\ IsOpen(last'.eu)) => last'.err # "none"
    /\ (CallOf("finish_eu") /\ last'.eu \in DictKeys(eu_states)
           /\ ~IsOpen(last'.eu)) =>
          /\ last'.err = "none"
          /\ last'.eu \notin DictKeys(eu_states')

C13_CausingEvents ==
    [][(CallOf("add_event") /\ last'.err = "none") =>
          LET fragment == DictGet(eu_states', last'.eu)
                              .tracing_data_pdu.trace_fragments[1]
              entries == fragment.events[Len(fragment.events)].causing_events
              causes == last'.causes
          IN /\ Len(fragment.events) = Len(OpenFragment(last'.eu).events) + 1
             /\ Len(entries) = Len(causes)
             /\ \A i \in 1..Len(causes) :
                   /\ entries[i].event_id = causes[i].event_id
                   /\ entries[i].trace_id =
                        IF causes[i].trace_id = OpenFragment(last'.eu).trace_id
                        THEN NoTraceId ELSE causes[i].trace_id]_vars

\* an event with two causes, one of the fragment's trace and one of another
C13_Witness ==
    /\ last.op = "add_event"
    /\ last.err = "none"
    /\ Len(last.causes) = 2
    /\ \E i, j \in 1..2 :
          /\ last.causes[i].trace_id = OpenFragment(last.eu).trace_id
          /\ last.causes[j].trace_id # OpenFragment(last.eu).trace_id

C15_FirstUseRecordsValue ==
    [][(/\ CallOf("add_tags")
        /\ IsOpen(last'.eu)
        /\ OpenFragment(last'.eu).events # <<>>
        /\ last'.tags # <<>>
        /\ last'.tags[1][1]
              \notin DictKeys(DictGet(eu_states, last'.eu).event_tags)) =>
          LET s == DictGet(eu_states, last'.eu)
              s2 == DictGet(eu_states', last'.eu)
              key == last'.tags[1][1]
              value == last'.tags[1][2]
          IN /\ last'.err = "none"
             /\ Len(LastEvent(s2).tags) = Len(LastEvent(s).tags) + 1
             /\ LET tag == LastEvent(s2).tags[Len(LastEvent(s2).tags)]
                IN /\ tag.value_case = "int_value"
                   /\ tag.value = value.v
             /\ key \in DictKeys(s2.event_tags)
             /\ DictGet(s2.event_tags, key) = value]_vars

C17_AliasStable ==
    \A i, j \in 1..Len(log) :
        (/\ i < j
         /\ log[i].op = "get_alias"
         /\ log[j].op = "get_alias"
         /\ log[i].string = log[j].string
         /\ log[i].err = "none") =>
            /\ log[j].err = "none"
            /\ log[j].alias = log[i].alias

\* a string interned, then a colliding string refused and a save_to, then
\* the first string again
C17_Witness ==
    \E i, j, k, m \in 1..Len(log) :
        /\ i < j /\ i < k /\ j < m /\ k < m
        /\ log[i].op = "get_alias" /\ log[i].err = "none"
        /\ log[j].op = "get_alias" /\ log[j].err = "HashCollisionError"
        /\ log[k].op = "save_to"
        /\ log[m].op = "get_alias" /\ log[m].string = log[i].string

\* C18: get_alias for a string that is not interned and whose hash is
\* bound to another string raises HashCollisionError and leaves both maps
\* and the dirty flag as they were; every repetition of the call raises
\* the error again.
C18_CollisionLeavesTable ==
    [][CallOf("get_alias") =>
          LET call == log'[Len(log')]
          IN /\ (/\ call.string \notin DictKeys(string_table.aliases_by_string)
                 /\ Aliases[call.string]
                       \in DictKeys(string_table.strings_by_alias)) =>
                   /\ call.err = "HashCollisionError"
                   /\ string_table' = string_table
             /\ \A i \in 1..Len(log) :
                   (/\ log[i].op = "get_alias"
                    /\ log[i].string = call.string
                    /\ log[i].err = "HashCollisionError") =>
                      call.err = "HashCollisionError"]_vars

\* a collision raised a second time, on a dirty table
C18_Witness ==
    /\ string_table.is_dirty
    /\ \E i, j \in 1..Len(log) :
          /\ i < j
          /\ log[i].op = "get_alias" /\ log[i].err = "HashCollisionError"
          /\ log[j].op = "get_alias" /\ log[j].err = "HashCollisionError"
          /\ log[i].string = log[j].string

\* C19: strings_by_alias and aliases_by_string are inverse of each other:
\* each alias is bound to one string, each string to one alias, and a pair
\* is in one map exactly when the reversed pair is in the other.
C19_MapsInverse ==
    /\ \A p, q \in string_table.strings_by_alias : p[1] = q[1] => p = q
    /\ \A p, q \in string_table.aliases_by_string : p[1] = q[1] => p = q
    /\ \A p \in string_table.strings_by_alias :
          <<p[2], p[1]>> \in string_table.aliases_by_string
    /\ \A p \in string_table.aliases_by_string :
          <<p[2], p[1]>> \in string_table.strings_by_alias

\* a table of two strings that has refused a colliding third one
C19_Witness ==
    /\ Cardinality(string_table.strings_by_alias) = 2
    /\ \E i \in 1..Len(log) : log[i].err = "HashCollisionError"

\* C20: a save_to on a dirty table emits exactly the entries interned
\* since the previous save_to, none of those an earlier save_to emitted,
\* and leaves the dirty flag cleared.
C20_SaveToEmitsNewEntries ==
    [][(CallOf("save_to") /\ string_table.is_dirty) =>
          LET emitted == log'[Len(log')].entries
              earlier == UNION {log[i].entries : i \in 1..Len(log)}
          IN /\ emitted = save_to_entries(string_table) \ earlier
             /\ ~string_table'.is_dirty]_vars

\* the name of the one tag of the call collides: it is not interned and
\* its hash is bound to another string
NameCollides(tags) ==
    /\ tags # <<>>
    /\ tags[1][1] \notin DictKeys(string_table.aliases_by_string)
    /\ Aliases[tags[1][1]] \in DictKeys(string_table.strings_by_alias)

\* the tag entry with the literal name as its key and the integer value
LiteralTag(tag) ==
    [alias_key |-> NoAlias, string_key |-> tag[1],
     value_case |-> "int_value", value |-> tag[2].v, alias_value |-> NoAlias]

\* C21: a start_eu of a new unit, and an add_tags on a unit with an open
\* trace and an event (and no value cached for the name), whose tag name
\* collides in the string table succeeds, leaves the string table
\* unchanged and adds one tag entry, with the literal name as its key and
\* the value given, to the unit descriptor or to the most recent event.
C21_CollisionFallsBack ==
    [][/\ (/\ CallOf("start_eu")
           /\ last'.eu \notin DictKeys(eu_states)
           /\ NameCollides(last'.tags)) =>
             /\ last'.err = "none"
             /\ string_table' = string_table
             /\ DictGet(eu_states', last'.eu).eu_pdu.tags
                   = <<LiteralTag(last'.tags[1])>>
       /\ (/\ CallOf("add_tags")
           /\ IsOpen(last'.eu)
           /\ OpenFragment(last'.eu).events # <<>>
           /\ NameCollides(last'.tags)
           /\ last'.tags[1][1]
                 \notin DictKeys(DictGet(eu_states, last'.eu).event_tags)) =>
             /\ last'.err = "none"
             /\ string_table' = string_table
             /\ LastEvent(DictGet(eu_states', last'.eu)).tags
                   = Append(LastEvent(DictGet(eu_states, last'.eu)).tags,
                            LiteralTag(last'.tags[1]))]_vars

\* the types of tag values _add_tag accepts
SupportedTypes == {"int", "bool", "float", "str", "bytes"}

\* the value of the one tag of the call is of a type that is not supported
ValueUnsupported(tags) ==
    tags # <<>> /\ tags[1][2].type \notin SupportedTypes

\* C22: a start_eu of a new unit, and an add_tags on a unit with an open
\* trace and an event, whose tag value is of an unsupported type raises
\* TypeError and leaves no tag entry for that tag in the unit descriptor or
\* in the event, and no entry for it in the last-value cache.
C22_TypeErrorLeavesNothing ==
    [][/\ (/\ CallOf("start_eu")
           /\ last'.eu \notin DictKeys(eu_states)
           /\ ValueUnsupported(last'.tags)) =>
             /\ last'.err = "TypeError"
             /\ last'.eu \in DictKeys(eu_states') =>
                   DictGet(eu_states', last'.eu).eu_pdu.tags = <<>>
       /\ (/\ CallOf("add_tags")
           /\ IsOpen(last'.eu)
           /\ OpenFragment(last'.eu).events # <<>>
           /\ ValueUnsupported(last'.tags)) =>
             /\ last'.err = "TypeError"
             /\ LastEvent(DictGet(eu_states', last'.eu)).tags
                   = LastEvent(DictGet(eu_states, last'.eu)).tags
             /\ DictGet(eu_states', last'.eu).event_tags
                   = DictGet(eu_states, last'.eu).event_tags]_vars

\* the field of a tag entry that holds a value of the given kind
KindField(type) ==
    CASE type = "bool" -> "boolean_value"
      [] type = "int" -> "int_value"
      [] type = "float" -> "float_value"
      [] type = "str" -> "string_value"
      [] type = "bytes" -> "bytes_value"

\* the entries of a unit descriptor keyed by the alias of the name
EntriesFor(d, name) ==
    {j \in 1..Len(d.tags) : d.tags[j].alias_key = Aliases[name]}

\* C23: in every routed PDU handed to the reporter, the descriptor of a unit
\* holds each tag given when the unit was created exactly once, keyed by the
\* alias of its name, with the given value in the field of the value's kind.
C23_CreationTagsByKind ==
    \A i \in 1..Len(items) :
        items[i].call = "send" =>
            \A d \in Range(items[i].pdu.execution_units) :
            \A l \in Range(log) :
                (l.op = "start_eu" /\ l.eu = d.id /\ l.err = "none") =>
                    \A k \in 1..Len(l.tags) :
                        /\ Cardinality(EntriesFor(d, l.tags[k][1])) = 1
                        /\ \A j \in EntriesFor(d, l.tags[k][1]) :
                              /\ d.tags[j].value_case = KindField(l.tags[k][2].type)
                              /\ d.tags[j].value = l.tags[k][2].v

\* the routed PDUs of unit u the step handed to the reporter
SentOf(u) ==
    {i \in 1..Len(NewItems) :
        /\ NewItems[i].call = "send"
        /\ NewItems[i].pdu.trace_fragments[1].execution_unit_id = u}

UsedTraceIds(u) ==
    {items[i].pdu.trace_fragments[1].trace_id :
        i \in {i \in 1..Len(items) :
                  /\ items[i].call = "send"
                  /\ items[i].pdu.trace_fragments[1].execution_unit_id = u}}
    \cup {DictGet(eus, u).trace_id}

\* the sequence numbers of a sequence of events
SeqNbrs(events) == [k \in 1..Len(events) |-> events[k].sequence_number]

\* the step is a trace_point of a registered unit with an open trace
TracePointStep ==
    /\ CallOf("trace_point")
    /\ last'.eu \in DictKeys(eus)
    /\ IsOpen(last'.eu)

\* the step sent the open fragment of unit u as it was, and left the unit
\* in trace t with a fragment holding the one new event
LeavesTraceFor(u, t) ==
    /\ Cardinality(SentOf(u)) = 1
    /\ \A i \in SentOf(u) :
          /\ NewItems[i].pdu.trace_fragments[1].trace_id
                = OpenFragment(u).trace_id
          /\ SeqNbrs(NewItems[i].pdu.trace_fragments[1].events)
                = SeqNbrs(OpenFragment(u).events)
    /\ DictGet(eus', u).trace_id = t
    /\ u \in DictKeys(eu_states')
    /\ DictGet(eu_states', u).is_trace_ongoing
    /\ DictGet(eu_states', u).tracing_data_pdu.trace_fragments[1].trace_id = t
    /\ SeqNbrs(DictGet(eu_states', u).tracing_data_pdu.trace_fragments[1].events)
          = <<DictGet(eus, u).nextEventSequenceNbr>>

GetEuCalls == {i \in 1..Len(log) : log[i].op = "get_eu"}

FinishBetween(t, i, j) ==
    \E k \in (i + 1)..(j - 1) : log[k].op = "finish" /\ log[k].thread = t

GetEuReturns(t) ==
    /\ last'.op = "get_eu"
    /\ Len(log') = Len(log) + 1
    /\ log'[Len(log')].thread = t

\* the latest call of thread t in log is a finish
FinishedLast(t) ==
    \E i \in 1..Len(log) :
        /\ log[i].thread = t
        /\ log[i].op = "finish"
        /\ \A k \in (i + 1)..Len(log) : log[k].thread # t

C30_ConcurrentGetAlias ==
    /\ \A i \in 1..Len(log) :
          /\ log[i].err = "HashCollisionError" =>
                log[i].conflicting_string # log[i].string
          /\ log[i].err = "none" => log[i].alias = Aliases[log[i].string]
    /\ (\A t \in Threads : threads[t].pc = "idle") =>
          \A i \in {i \in 1..Len(log) : log[i].err = "none"} :
              /\ Cardinality({p \in string_table.aliases_by_string :
                                 p[1] = log[i].string}) = 1
              /\ <<log[i].alias, log[i].string>>
                    \in string_table.strings_by_alias

\* C31: with two threads on the shared builder, every alias used as a tag
\* key in a routed PDU handed to Reporter.send is in the entries of a
\* broadcast PDU handed to Reporter.broadcast before it; and when no
\* finish_trace is under way and the table is not dirty, no entry of the
\* table is left that no broadcast carried.
C31_SharedBuilderBroadcastFirst ==
    /\ \A i \in 1..Len(items) :
          items[i].call = "send" =>
              \A a \in KeyAliases(items[i].pdu) :
                  \E j \in 1..(i - 1) :
                      /\ items[j].call = "broadcast"
                      /\ \E e \in items[j].pdu.strings : e.alias = a
    /\ ((\A t \in Threads : threads[t].pc = "idle")
            /\ ~string_table.is_dirty) =>
          Pending = {}

\* an extract call on the carrier of an inject call
Extracts == Len(log) = 2 /\ log[2].op = "extract"

\* C32: extract applied to the carrier inject produced (a binary carrier
\* as a memoryview) returns a context whose event reference equals the one
\* injected in trace id, event id and originating unit id, with the
\* injected baggage for the text-map form and no baggage for the others.
C32_PropagatorsRoundTrip ==
    (/\ Extracts
     /\ log[1].tamper = <<>>
     /\ log[2].carrier.type \in {"memoryview", "dict"}) =>
        /\ log[2].err = "none"
        /\ log[2].context.event_reference
              = log[1].span_context.event_reference
        /\ log[2].context.baggage
              = IF log[2].format = "text_map"
                THEN log[1].span_context.baggage ELSE <<>>

\* C33: binary extract of a carrier that is no memoryview raises
\* InvalidCarrierException, and of a memoryview of another length than 26
\* raises SpanContextCorruptedException.
C33_BinaryLength ==
    (Extracts /\ log[2].format = "binary") =>
        /\ log[2].carrier.type # "memoryview" =>
              log[2].err = "InvalidCarrierException"
        /\ (/\ log[2].carrier.type = "memoryview"
            /\ Len(log[2].carrier.data) # _BINARY_FORMAT_LENGTH) =>
              log[2].err = "SpanContextCorruptedException"

\* the carrier has an item whose name, in lower case, is name
HoldsField(data, name) ==
    \E i \in 1..Len(data) : lower(data[i][1]) = name

HoldsAllFields(data) ==
    /\ HoldsField(data, field_name_trace_id)
    /\ HoldsField(data, field_name_span_id)
    /\ HoldsField(data, field_name_sampled)

\* C34: text-map extract of a carrier that lacks the trace-id, span-id or
\* sampled field raises SpanContextCorruptedException, and a context it
\* returns has a trace id and an event id.
C34_TextMapFields ==
    (Extracts /\ log[2].format = "text_map") =>
        /\ ~HoldsAllFields(log[2].carrier.data) =>
              log[2].err = "SpanContextCorruptedException"
        /\ log[2].err = "none" =>
              /\ log[2].context.event_reference.trace_id # NoneValue
              /\ log[2].context.event_reference.event_id # NoneValue

\* the sequence numbers of the events of a PDU handed to the reporter: a
\* routed PDU has one fragment, a broadcast has none
SequenceNumbers(item) ==
    IF item.call = "send"
    THEN [k \in 1..Len(item.pdu.trace_fragments[1].events) |->
             item.pdu.trace_fragments[1].events[k].sequence_number]
    ELSE <<>>

\* C35: the events appended with add_event between a start_trace and the
\* finish_trace that sent its fragment are, in the order of appending, the
\* events of the routed PDU of that finish_trace and occur in no other PDU;
\* every routed PDU handed to the reporter is the fragment of one
\* start_trace, and no two of them are the same fragment.
C35_EventsExactlyOnce ==
    /\ \A i \in 1..Len(log) :
          log[i].sent # 0 =>
              /\ log[i].sent \in 1..Len(items)
              /\ items[log[i].sent].call = "send"
              /\ items[log[i].sent].pdu.trace_fragments[1].execution_unit_id
                    = log[i].eu
              /\ SequenceNumbers(items[log[i].sent]) = log[i].appended
              /\ \A j \in (1..Len(items)) \ {log[i].sent} :
                    Range(SequenceNumbers(items[j]))
                        \cap Range(log[i].appended) = {}
    /\ \A j \in 1..Len(items) :
          items[j].call = "send" =>
              \E i \in 1..Len(log) : log[i].sent = j
    /\ \A i, k \in 1..Len(log) :
          (log[i].sent # 0 /\ log[i].sent = log[k].sent) => i = k

\* two events were appended to a fragment and finish_trace handed the
\* fragment to the reporter, after a broadcast
C35_Witness ==
    \E i \in 1..Len(log) :
        /\ log[i].sent > 1
        /\ Len(log[i].appended) = 2
        /\ last.op = "finish_trace"
        /\ last.err = "none"

\* C36: a finish_trace that fails because the trace id given is not the id
\* of the unit's open trace leaves the state of the unit as it was: the
\* trace open, the fragment and the last-value cache of the tags intact.
C36_FailedFinishTraceKeepsState ==
    [][(/\ CallOf("finish_trace")
        /\ IsOpen(last'.eu)
        /\ OpenFragment(last'.eu).trace_id # last'.trace_id) =>
          /\ last'.err = "AssertionError"
          /\ eu_states' = eu_states
          /\ items' = items]_vars

\* C37: a finish_eu that fails because the trace of the unit is open leaves
\* the unit registered, with its open fragment.
C37_FailedFinishEuKeepsUnit ==
    [][(CallOf("finish_eu") /\ IsOpen(last'.eu)) =>
          /\ last'.err = "AssertionError"
          /\ last'.eu \in DictKeys(eu_states')
          /\ DictGet(eu_states', last'.eu) = DictGet(eu_states, last'.eu)]_vars

\* C39: when Reporter.broadcast raises in finish_trace the string table is
\* still dirty after the call, with the entries it had.
C39_FailedBroadcastStaysPending ==
    [][(CallOf("finish_trace") /\ last'.err = "ReporterError") =>
          /\ string_table'.is_dirty
          /\ save_to_entries(string_table') = save_to_entries(string_table)]_vars

\* the sequence numbers add_event appended under the id of the unit
AppendedUnder(eu_id, l) ==
    UNION {Range(l[i].appended) : i \in {i \in 1..Len(l) : l[i].eu = eu_id}}

\* C40: start_trace, add_event, add_tags, finish_trace and finish_eu naming
\* a unit leave every other registered unit registered and its state
\* (open-trace flag, fragment with its events, last-value cache, unit
\* descriptor) as it was, and the events of every routed PDU handed to the
\* reporter were added under the id of the unit of its fragment.
C40_OtherUnitsUnchanged ==
    [][(/\ calls' = calls + 1
        /\ last'.op \in {"start_trace", "add_event", "add_tags",
                         "finish_trace", "finish_eu"}) =>
          /\ \A B \in DictKeys(eu_states) \ {last'.eu} :
                /\ B \in DictKeys(eu_states')
                /\ DictGet(eu_states', B) = DictGet(eu_states, B)
          /\ \A j \in 1..Len(items') :
                items'[j].call = "send" =>
                    Range(SequenceNumbers(items'[j])) \subseteq
                        AppendedUnder(items'[j].pdu.trace_fragments[1]
                                          .execution_unit_id, log')]_vars

\* an event was appended to the open fragment of a unit while the other
\* unit has an open fragment with an event of its own
C40_Witness ==
    /\ last.op = "add_event"
    /\ last.err = "none"
    /\ \E B \in EuIds \ {last.eu} :
          /\ IsOpen(B)
          /\ OpenFragment(B).events # <<>>
          /\ OpenFragment(last.eu).events # <<>>

\* the names of the tags on the events of a routed PDU, read with the
\* string table st
EventTagNames(pdu, st) ==
    LET tagged == UNION {Range(e.tags) : e \in Range(pdu.trace_fragments[1].events)}
    IN {IF t.alias_key # NoAlias
        THEN DictGet(st.strings_by_alias, t.alias_key)
        ELSE t.string_key : t \in tagged}

====
